---------------------------- MODULE Spec2Model ----------------------------
(***************************************************************************)
(* The production build pipeline of build-production.js                    *)
(* (class ProductionBuilder): directory creation, CSS and JS bundling and  *)
(* minification, critical-CSS extraction, asset copy and the HTML rewrite. *)
(*                                                                         *)
(* Texts are strings, read character by character: Len(s), SubSeq(s, i, j) *)
(* and \o act on a string as on the sequence of its characters.  Every     *)
(* regular expression of the source is translated into a matcher that      *)
(* gives, for a position of the text, the length of the match starting     *)
(* there and the text replacing it; String.prototype.replace with the g    *)
(* flag is the leftmost, non-overlapping scan over these matches.          *)
(***************************************************************************)
EXTENDS Naturals, Integers, Sequences, FiniteSets, TLC

(***************************************************************************)
(* Characters and substrings                                               *)
(***************************************************************************)

\* s[i], the i-th character of s (1-based)
Ch(s, i) == SubSeq(s, i, i)

\* does the literal p occur in s at position i
StartsAt(s, i, p) ==
  /\ i >= 1
  /\ i + Len(p) - 1 <= Len(s)
  /\ SubSeq(s, i, i + Len(p) - 1) = p

\* first position >= i at which p occurs in s; 0 when there is none
IndexOfFrom(s, p, i) ==
  IF \E j \in i..Len(s) : StartsAt(s, j, p)
  THEN CHOOSE j \in i..Len(s) :
         StartsAt(s, j, p) /\ \A k \in i..(j - 1) : ~StartsAt(s, k, p)
  ELSE 0

\* String.prototype.indexOf / includes
IndexOf(s, p) == IndexOfFrom(s, p, 1)

Includes(s, p) == \E j \in 1..Len(s) : StartsAt(s, j, p)

\* number of (possibly overlapping) occurrences of p in s
CountOcc(s, p) == Cardinality({j \in 1..Len(s) : StartsAt(s, j, p)})

\* the regular-expression class \s, on the characters the texts are made of
IsSpace(c) == c \in {" ", "\n", "\t", "\r", "\f"}

\* length of the run of \s characters of s that starts at i
SpaceRun(s, i) ==
  IF \E j \in i..Len(s) : ~IsSpace(Ch(s, j))
  THEN (CHOOSE j \in i..Len(s) :
          ~IsSpace(Ch(s, j)) /\ \A k \in i..(j - 1) : IsSpace(Ch(s, k))) - i
  ELSE IF i > Len(s) THEN 0 ELSE Len(s) - i + 1

(***************************************************************************)
(* String.prototype.replace                                                *)
(***************************************************************************)

\* the value of a matcher at a position where the expression does not match
NoMatch == [len |-> 0, rep |-> ""]

\* str.replace(/re/g, ...): m[j] is the match of the expression at j.  The
\* scan takes the leftmost match at or after i, copies the text before it,
\* puts the replacement and goes on behind the match.
RECURSIVE ReplaceMatches(_, _, _)
ReplaceMatches(s, m, i) ==
  IF \E j \in i..Len(s) : m[j].len > 0
  THEN LET j == CHOOSE j \in i..Len(s) :
                  m[j].len > 0 /\ \A k \in i..(j - 1) : m[k].len = 0
       IN  SubSeq(s, i, j - 1) \o m[j].rep
             \o ReplaceMatches(s, m, j + m[j].len)
  ELSE SubSeq(s, i, Len(s))

\* str.match(/re/g): the matched texts, leftmost first, non-overlapping
RECURSIVE MatchAll(_, _, _)
MatchAll(s, m, i) ==
  IF \E j \in i..Len(s) : m[j].len > 0
  THEN LET j == CHOOSE j \in i..Len(s) :
                  m[j].len > 0 /\ \A k \in i..(j - 1) : m[k].len = 0
       IN  <<SubSeq(s, j, j + m[j].len - 1)>>
             \o MatchAll(s, m, j + m[j].len)
  ELSE <<>>

\* a join that puts a line end between the texts (join('\n'))
RECURSIVE JoinLines(_)
JoinLines(ss) ==
  IF ss = <<>> THEN ""
  ELSE IF Tail(ss) = <<>> THEN Head(ss)
  ELSE Head(ss) \o "\n" \o JoinLines(Tail(ss))

\* Array.prototype.join('')
RECURSIVE Join(_)
Join(ss) == IF ss = <<>> THEN "" ELSE Head(ss) \o Join(Tail(ss))

\* GetSubstitution for a pattern without capture groups: in the replacement
\* text "$$" stands for "$", "$&" for the matched text and "$'" for the
\* text after the match; any other "$" is kept.  ("$" with a grave accent
\* stands for the text before the match: a string of this module cannot hold
\* a grave accent, so no text of the model has one and the case is left out;
\* position is kept as a parameter, as in the ECMAScript operation.)
RECURSIVE GetSubstitution(_, _, _, _, _)
GetSubstitution(matched, str, position, replacement, i) ==
  LET d == IndexOfFrom(replacement, "$", i) IN
  IF d = 0 THEN SubSeq(replacement, i, Len(replacement))
  ELSE LET c    == IF d < Len(replacement) THEN Ch(replacement, d + 1) ELSE ""
           head == SubSeq(replacement, i, d - 1)
       IN  IF c = "$"
           THEN head \o "$"
                  \o GetSubstitution(matched, str, position, replacement, d + 2)
           ELSE IF c = "&"
           THEN head \o matched
                  \o GetSubstitution(matched, str, position, replacement, d + 2)
           ELSE IF c = "'"
           THEN head \o SubSeq(str, position + Len(matched), Len(str))
                  \o GetSubstitution(matched, str, position, replacement, d + 2)
           ELSE head \o "$"
                  \o GetSubstitution(matched, str, position, replacement, d + 1)

\* a replace that, finding no occurrence of the pattern, puts the expanded
\* replacement text at the end of the text instead of leaving the text alone
ReplaceOrAppend(str, pattern, replacement) ==
  LET p == IndexOf(str, pattern) IN
  IF p = 0 THEN str \o GetSubstitution(pattern, str, Len(str) + 1, replacement, 1)
  ELSE SubSeq(str, 1, p - 1)
         \o GetSubstitution(pattern, str, p, replacement, 1)
         \o SubSeq(str, p + Len(pattern), Len(str))

\* str.replace(pattern, replacement) with a string pattern: only the first
\* occurrence is replaced, and the replacement text is expanded
ReplaceFirst(str, pattern, replacement) ==
  LET p == IndexOf(str, pattern) IN
  IF p = 0 THEN str
  ELSE SubSeq(str, 1, p - 1)
         \o GetSubstitution(pattern, str, p, replacement, 1)
         \o SubSeq(str, p + Len(pattern), Len(str))

\* String.prototype.trim
Trim(s) ==
  IF \A j \in 1..Len(s) : IsSpace(Ch(s, j)) THEN ""
  ELSE LET a == CHOOSE j \in 1..Len(s) :
                  ~IsSpace(Ch(s, j)) /\ \A k \in 1..(j - 1) : IsSpace(Ch(s, k))
           b == CHOOSE j \in 1..Len(s) :
                  ~IsSpace(Ch(s, j)) /\ \A k \in (j + 1)..Len(s) : IsSpace(Ch(s, k))
       IN  SubSeq(s, a, b)

(***************************************************************************)
(* The expressions of the two minifiers                                    *)
(***************************************************************************)

\* /\/\*[\s\S]*?\*\//g -> '': a block comment, up to the first "*/" behind
\* its "/*"
BlockComment(s) ==
  [i \in 1..Len(s) |->
     IF StartsAt(s, i, "/*") /\ IndexOfFrom(s, "*/", i + 2) > 0
     THEN [len |-> IndexOfFrom(s, "*/", i + 2) + 2 - i, rep |-> ""]
     ELSE NoMatch]

\* /\s+/g -> ' '
WhitespaceRun(s) ==
  [i \in 1..Len(s) |->
     IF IsSpace(Ch(s, i)) THEN [len |-> SpaceRun(s, i), rep |-> " "]
     ELSE NoMatch]

\* /\s*([CHARS])\s*/g -> '$1': one character of the class with the
\* whitespace on both sides of it, replaced by the character alone
AroundChars(s, chars) ==
  [i \in 1..Len(s) |->
     LET a == SpaceRun(s, i) IN
     IF i + a <= Len(s) /\ Ch(s, i + a) \in chars
     THEN [len |-> a + 1 + SpaceRun(s, i + a + 1), rep |-> Ch(s, i + a)]
     ELSE NoMatch]

\* /;}/g -> '}'
SemicolonBrace(s) ==
  [i \in 1..Len(s) |->
     IF StartsAt(s, i, ";}") THEN [len |-> 2, rep |-> "}"] ELSE NoMatch]

\* the end of the line of position i: the position of the next "\n" at or
\* after i, or Len(s) + 1
LineEnd(s, i) ==
  LET e == IndexOfFrom(s, "\n", i) IN IF e = 0 THEN Len(s) + 1 ELSE e

\* /\/\/[^\n]*/g -> '': the expression without its lookahead, which takes
\* every "//" as the start of a comment
LineCommentAny(s) ==
  [i \in 1..Len(s) |->
     IF StartsAt(s, i, "//")
     THEN [len |-> LineEnd(s, i + 2) - i, rep |-> ""]
     ELSE NoMatch]

\* /\/\/(?![^\n]*https?:)[^\n]*/g -> '': a "//" with the rest of its line,
\* unless "http:" or "https:" occurs behind the "//" on the same line
LineComment(s) ==
  [i \in 1..Len(s) |->
     IF /\ StartsAt(s, i, "//")
        /\ ~\E k \in (i + 2)..(LineEnd(s, i + 2) - 1) :
              StartsAt(s, k, "http:") \/ StartsAt(s, k, "https:")
     THEN [len |-> LineEnd(s, i + 2) - i, rep |-> ""]
     ELSE NoMatch]

CssStructural == {"{", "}", ":", ";", ",", ">", "+", "~"}

JsPunctuation ==
  {"{", "}", "(", ")", ";", ",", "=", "+", "-", "*", "/", "<", ">", "!", "&", "|"}

minifyCSSContent(css) ==
  LET s1 == ReplaceMatches(css, BlockComment(css), 1)
      s2 == ReplaceMatches(s1, WhitespaceRun(s1), 1)
      s3 == ReplaceMatches(s2, AroundChars(s2, CssStructural), 1)
      s4 == ReplaceMatches(s3, SemicolonBrace(s3), 1)
  IN  Trim(s4)

minifyJSContent(js) ==
  LET s1 == ReplaceMatches(js, LineComment(js), 1)
      s2 == ReplaceMatches(s1, BlockComment(s1), 1)
      s3 == ReplaceMatches(s2, WhitespaceRun(s2), 1)
      s4 == ReplaceMatches(s3, AroundChars(s3, JsPunctuation), 1)
  IN  Trim(s4)

(***************************************************************************)
(* The critical-CSS extractor                                              *)
(***************************************************************************)

\* src/build-production.js:164-181
criticalSelectors ==
  << ":root",
     "html", "body",
     ".site-header", ".main-nav", ".nav-container", ".logo", ".nav-menu",
     ".nav-link", ".mobile-menu-toggle", ".hamburger-line",
     ".hero-section", ".hero-container", ".event-title", ".hero-subtitle",
     ".hero-date", ".cta-button", ".scroll-indicator", ".scroll-arrow",
     ".skip-link",
     ".sr-only",
     ".text-center", ".text-white", ".bg-purple", ".font-bold" >>

\* the class [.*+?^${}()|[\]\\] of the characters escaped in a selector
RegExpSpecial ==
  {".", "*", "+", "?", "^", "$", "{", "}", "(", ")", "|", "[", "]", "\\"}

\* selector.replace(/[.*+?^${}()|[\]\\]/g, '\\$&')
escapeSelector(selector) ==
  ReplaceMatches(selector,
    [i \in 1..Len(selector) |->
       IF Ch(selector, i) \in RegExpSpecial
       THEN [len |-> 1, rep |-> "\\" \o Ch(selector, i)]
       ELSE NoMatch],
    1)

\* The atoms of the expression text built from an escaped selector: "\c" is
\* the character c, an unescaped "." is any character but a line terminator,
\* every other character of a selector is itself.
RECURSIVE PatternAtoms(_, _)
PatternAtoms(p, i) ==
  IF i > Len(p) THEN <<>>
  ELSE IF Ch(p, i) = "\\" /\ i < Len(p)
       THEN <<[any |-> FALSE, c |-> Ch(p, i + 1)]>> \o PatternAtoms(p, i + 2)
  ELSE IF Ch(p, i) = "."
       THEN <<[any |-> TRUE, c |-> "."]>> \o PatternAtoms(p, i + 1)
  ELSE <<[any |-> FALSE, c |-> Ch(p, i)]>> \o PatternAtoms(p, i + 1)

AtomsAt(s, i, atoms) ==
  /\ i + Len(atoms) - 1 <= Len(s)
  /\ \A k \in 1..Len(atoms) :
        IF atoms[k].any THEN Ch(s, i + k - 1) \notin {"\n", "\r"}
        ELSE Ch(s, i + k - 1) = atoms[k].c

\* new RegExp(source + "\\s*{[^}]*}", 'g'): the text of source, whitespace,
\* "{", and everything up to and including the next "}"
RuleBlock(s, source) ==
  LET atoms == PatternAtoms(source, 1) IN
  [i \in 1..Len(s) |->
     IF AtomsAt(s, i, atoms)
     THEN LET b == i + Len(atoms) + SpaceRun(s, i + Len(atoms))
              e == IndexOfFrom(s, "}", b + 1)
          IN  IF b <= Len(s) /\ Ch(s, b) = "{" /\ e > 0
              THEN [len |-> e - i + 1, rep |-> ""]
              ELSE NoMatch
     ELSE NoMatch]

\* the forEach over criticalSelectors, from entry k on: the matches of each
\* selector, joined, in list order
RECURSIVE SelectorRules(_, _)
SelectorRules(fullCSS, k) ==
  IF k > Len(criticalSelectors) THEN ""
  ELSE Join(MatchAll(fullCSS,
                     RuleBlock(fullCSS, escapeSelector(criticalSelectors[k])),
                     1))
         \o SelectorRules(fullCSS, k + 1)

\* an extractor that adds the custom properties behind the rules of the
\* other selectors instead of in front of them
CriticalCSSRootLast(fullCSS) ==
  SelectorRules(fullCSS, 2)
    \o Join(MatchAll(fullCSS, RuleBlock(fullCSS, ":root"), 1))

\* an extractor that leaves :root out of the loop over the selectors, so
\* that the custom properties are written once
CriticalCSSDeduplicated(fullCSS) ==
  Join(MatchAll(fullCSS, RuleBlock(fullCSS, ":root"), 1))
    \o SelectorRules(fullCSS, 2)

\* the text extractCriticalCSS writes for the full CSS it read: the :root
\* blocks first, then the rules of the selectors
CriticalCSSOf(fullCSS) ==
  Join(MatchAll(fullCSS, RuleBlock(fullCSS, ":root"), 1))
    \o SelectorRules(fullCSS, 1)

(***************************************************************************)
(* The HTML rewrite                                                        *)
(***************************************************************************)

\* /OPEN[^"]+EXT"CLOSE/g -> '': a tag that names a file, from open (which
\* ends inside the quoted path) over a path ending in ext to close
FileTag(s, open, ext, close) ==
  [i \in 1..Len(s) |->
     IF StartsAt(s, i, open)
     THEN LET p == i + Len(open)
              q == IndexOfFrom(s, "\"", p)
          IN  IF /\ q > 0
                 /\ q - p >= Len(ext) + 1
                 /\ SubSeq(s, q - Len(ext), q - 1) = ext
                 /\ StartsAt(s, q + 1, close)
              THEN [len |-> q + 1 + Len(close) - i, rep |-> ""]
              ELSE NoMatch
     ELSE NoMatch]

\* /<link rel="stylesheet" href="css\/[^"]+\.css">/g
StylesheetLink(s) ==
  FileTag(s, "<link rel=\"stylesheet\" href=\"css/", ".css", ">")

\* /    <script src="js\/[^"]+\.js"><\/script>\n/g
ScriptLine(s) ==
  FileTag(s, "    <script src=\"js/", ".js", "></script>\n")

InlineStyle(criticalCSS) == "    <style>" \o criticalCSS \o "</style>\n</head>"

PreloadBlock ==
  "    <link rel=\"preload\" href=\"css/styles.min.css\" as=\"style\" "
    \o "onload=\"this.onload=null;this.rel='stylesheet'\">\n"
    \o "    <noscript><link rel=\"stylesheet\" href=\"css/styles.min.css\">"
    \o "</noscript>\n"

BundleScript == "    <script src=\"js/scripts.min.js\"></script>\n"

AuthorMeta == "<meta name=\"author\" content=\"Side Quest Market\">"

CachingBlock ==
  "\n    \n    <!-- Performance and caching meta tags -->\n"
    \o "    <meta http-equiv=\"Cache-Control\" content=\"public, max-age=31536000\">\n"
    \o "    <meta http-equiv=\"Expires\" content=\"Thu, 31 Dec 2025 23:59:59 GMT\">\n"
    \o "    <link rel=\"dns-prefetch\" href=\"//cdn.emailjs.com\">\n"
    \o "    <link rel=\"dns-prefetch\" href=\"//www.eventbrite.com\">"

\* a rewrite that inserts the preload link before it inlines the style
ProductionHTMLPreloadFirst(source, criticalCSS) ==
  LET h1 == ReplaceMatches(source, StylesheetLink(source), 1)
      h2 == ReplaceFirst(h1, "</head>", PreloadBlock \o "</head>")
      h3 == ReplaceFirst(h2, "</head>", InlineStyle(criticalCSS))
      h4 == ReplaceMatches(h3, ScriptLine(h3), 1)
      h5 == ReplaceFirst(h4, "</body>", BundleScript \o "</body>")
  IN  ReplaceFirst(h5, AuthorMeta, AuthorMeta \o CachingBlock)

\* a rewrite that inserts the bundle's script tag before it removes the
\* script lines
ProductionHTMLScriptFirst(source, criticalCSS) ==
  LET h1 == ReplaceMatches(source, StylesheetLink(source), 1)
      h2 == ReplaceFirst(h1, "</head>", InlineStyle(criticalCSS))
      h3 == ReplaceFirst(h2, "</head>", PreloadBlock \o "</head>")
      h4 == ReplaceFirst(h3, "</body>", BundleScript \o "</body>")
      h5 == ReplaceMatches(h4, ScriptLine(h4), 1)
  IN  ReplaceFirst(h5, AuthorMeta, AuthorMeta \o CachingBlock)

\* a rewrite whose last replacement puts the caching block in the place of
\* the author meta tag instead of behind it
ProductionHTMLMarkerDropped(source, criticalCSS) ==
  LET h1 == ReplaceMatches(source, StylesheetLink(source), 1)
      h2 == ReplaceFirst(h1, "</head>", InlineStyle(criticalCSS))
      h3 == ReplaceFirst(h2, "</head>", PreloadBlock \o "</head>")
      h4 == ReplaceMatches(h3, ScriptLine(h3), 1)
      h5 == ReplaceFirst(h4, "</body>", BundleScript \o "</body>")
  IN  ReplaceFirst(h5, AuthorMeta, CachingBlock)

\* the six replacements of updateHTMLForProduction, in the order of the code
ProductionHTML(source, criticalCSS) ==
  LET h1 == ReplaceMatches(source, StylesheetLink(source), 1)
      h2 == ReplaceFirst(h1, "</head>", InlineStyle(criticalCSS))
      h3 == ReplaceFirst(h2, "</head>", PreloadBlock \o "</head>")
      h4 == ReplaceMatches(h3, ScriptLine(h3), 1)
      h5 == ReplaceFirst(h4, "</body>", BundleScript \o "</body>")
  IN  ReplaceFirst(h5, AuthorMeta, AuthorMeta \o CachingBlock)

(***************************************************************************)
(* The file system, as the fs calls of the script see it                   *)
(***************************************************************************)

VARIABLES
  files,     \* the regular files on disk: path |-> content
  dirs,      \* the paths of the directories on disk
  pc,        \* the position of the process in build()
  runsLeft,  \* how many more times the script is going to be run
  combined,  \* the locals combinedCSS and combinedJS of the two bundlers
  console,   \* what the run has written with console.log / console.error
  exitCode,  \* the status process.exit was called with; -1: it was not
  previous   \* the files on disk when the previous run ended

\* the build script, which runs under node
build == <<files, dirs, pc, runsLeft, combined, console, exitCode, previous>>

\* The modules of the page, which run in the browser: each variable is the
\* state of one object and of the part of the document it works on.
VARIABLES
  navigation,   \* the Navigation instance (js/navigation.js)
  darkMode,     \* the DarkModeToggle instance (js/dark-mode.js)
  contactForm,  \* the ContactForm instance (js/contact-form.js)
  fontLoader,   \* the FontLoader instance (js/font-loader.js)
  siteMap       \* the SiteMapModal instance (js/site-map.js)

browser == <<navigation, darkMode, contactForm, fontLoader, siteMap>>

vars == <<build, browser>>

\* a module of the page that no script has constructed
NotLoaded == [loaded |-> FALSE]

\* no page is open: the state of the browser while the build runs
PageIdle ==
  /\ navigation = NotLoaded
  /\ darkMode = NotLoaded
  /\ contactForm = NotLoaded
  /\ fontLoader = NotLoaded
  /\ siteMap = NotLoaded

\* a file system under operation: err is the message of the exception an fs
\* call has thrown, "" while none has; once one is thrown, the calls that
\* follow in the same stage are not made
FS(f, d) == [files |-> f, dirs |-> d, err |-> ""]

IsFile(fs, p) == p \in DOMAIN fs.files

IsDir(fs, p) == p = "." \/ p \in fs.dirs

\* fs.existsSync
existsSync(fs, p) == IsFile(fs, p) \/ IsDir(fs, p)

\* path.join of two relative paths
PathJoin(a, b) == a \o "/" \o b

SlashesOf(p) == {j \in 1..Len(p) : Ch(p, j) = "/"}

\* path.dirname
Dirname(p) ==
  IF SlashesOf(p) = {} THEN "."
  ELSE SubSeq(p, 1, (CHOOSE j \in SlashesOf(p) : \A k \in SlashesOf(p) : k <= j) - 1)

\* p and the directories above it
PathPrefixes(p) == {SubSeq(p, 1, j - 1) : j \in SlashesOf(p)} \cup {p}

Throw(fs, message) == [fs EXCEPT !.err = message]

\* fs.mkdirSync(p, { recursive: true })
mkdirSync(fs, p) ==
  IF fs.err # "" THEN fs
  ELSE IF \E q \in PathPrefixes(p) : IsFile(fs, q)
       THEN Throw(fs, "ENOTDIR: not a directory, mkdir")
  ELSE [fs EXCEPT !.dirs = @ \cup PathPrefixes(p)]

\* fs.mkdirSync(p) called without asking whether p exists and without the
\* recursive option: it throws on a path that exists
mkdirUnguarded(fs, p) ==
  IF fs.err # "" THEN fs
  ELSE IF existsSync(fs, p)
       THEN Throw(fs, "EEXIST: file already exists, mkdir")
  ELSE mkdirSync(fs, p)

\* if (!fs.existsSync(p)) fs.mkdirSync(p, { recursive: true })
EnsureDir(fs, p) ==
  IF fs.err # "" \/ existsSync(fs, p) THEN fs ELSE mkdirSync(fs, p)

\* a write that adds to the file it finds instead of truncating it
\* (fs.appendFileSync in the place of fs.writeFileSync)
appendFileSync(fs, p, content) ==
  IF fs.err # "" THEN fs
  ELSE IF IsDir(fs, p)
       THEN Throw(fs, "EISDIR: illegal operation on a directory, open")
  ELSE IF ~IsDir(fs, Dirname(p))
       THEN Throw(fs, "ENOENT: no such file or directory, open")
  ELSE [fs EXCEPT !.files =
          [q \in DOMAIN fs.files \cup {p} |->
             IF q # p THEN fs.files[q]
             ELSE IF IsFile(fs, p) THEN fs.files[p] \o content ELSE content]]

\* fs.writeFileSync(p, content): creates or truncates the file
writeFileSync(fs, p, content) ==
  IF fs.err # "" THEN fs
  ELSE IF IsDir(fs, p)
       THEN Throw(fs, "EISDIR: illegal operation on a directory, open")
  ELSE IF ~IsDir(fs, Dirname(p))
       THEN Throw(fs, "ENOENT: no such file or directory, open")
  ELSE [fs EXCEPT !.files =
          [q \in DOMAIN fs.files \cup {p} |->
             IF q = p THEN content ELSE fs.files[q]]]

\* fs.copyFileSync(src, dest)
copyFileSync(fs, src, dest) ==
  IF fs.err # "" THEN fs
  ELSE IF ~IsFile(fs, src)
       THEN Throw(fs, "ENOENT: no such file or directory, copyfile")
  ELSE writeFileSync(fs, dest, fs.files[src])

\* fs.readdirSync(d): the names of the entries of directory d
readdirSync(fs, d) ==
  {LET i == Len(d) + 2
       e == IndexOfFrom(q, "/", i)
   IN  SubSeq(q, i, IF e = 0 THEN Len(q) ELSE e - 1) :
     q \in {r \in DOMAIN fs.files \cup fs.dirs : StartsAt(r, 1, d \o "/")}}

(***************************************************************************)
(* The configuration of the builder (its constructor)                      *)
(***************************************************************************)

cssFiles ==
  << "css/main.css", "css/components.css", "css/responsive.css",
     "css/accessibility.css", "css/typography.css", "css/images.css" >>

jsFiles ==
  << "js/font-loader.js", "js/image-lazy-loading.js", "js/main.js",
     "js/navigation.js", "js/keyboard-navigation.js", "js/contact-form.js",
     "js/smooth-scroll.js" >>

outputDir == "dist"

StylesMinCss == PathJoin(PathJoin(outputDir, "css"), "styles.min.css")

CriticalMinCss == PathJoin(PathJoin(outputDir, "css"), "critical.min.css")

ScriptsMinJs == PathJoin(PathJoin(outputDir, "js"), "scripts.min.js")

DistIndexHtml == PathJoin(outputDir, "index.html")

(***************************************************************************)
(* The stages of build()                                                   *)
(***************************************************************************)

\* a createOutputDirectory that empties the output directory before it makes
\* the subdirectories (fs.rmSync(outputDir, { recursive: true, force: true }))
createCleanOutputDirectory(fs) ==
  LET inside(q) == StartsAt(q, 1, outputDir \o "/")
      d0 == [fs EXCEPT
               !.files = [q \in {r \in DOMAIN fs.files : ~inside(r)} |-> fs.files[q]],
               !.dirs  = {q \in fs.dirs : ~inside(q)}]
      d1 == EnsureDir(EnsureDir(d0, outputDir), PathJoin(outputDir, "css"))
      d2 == EnsureDir(d1, PathJoin(outputDir, "js"))
      d3 == EnsureDir(d2, PathJoin(outputDir, "assets"))
  IN  EnsureDir(d3, PathJoin(outputDir, "fonts"))

\* createOutputDirectory: the output root, then its four subdirectories
createOutputDirectory(fs) ==
  LET d0 == EnsureDir(fs, outputDir)
      d1 == EnsureDir(d0, PathJoin(outputDir, "css"))
      d2 == EnsureDir(d1, PathJoin(outputDir, "js"))
      d3 == EnsureDir(d2, PathJoin(outputDir, "assets"))
  IN  EnsureDir(d3, PathJoin(outputDir, "fonts"))

\* one pass of the loop of a bundler: the section of a file that exists
Section(fs, file) ==
  IF existsSync(fs, file)
  THEN "/* " \o file \o " */\n" \o fs.files[file] \o "\n\n"
  ELSE ""

\* a bundler that puts each section in front of the text built so far
\* (combined = section + combined in the place of combined += section)
RECURSIVE CombinePrepending(_, _, _)
CombinePrepending(fs, list, k) ==
  IF k > Len(list) THEN ""
  ELSE CombinePrepending(fs, list, k + 1) \o Section(fs, list[k])

\* the loop "for (const file of list)" of minifyCSS and minifyJavaScript,
\* from entry k on
RECURSIVE Combine(_, _, _)
Combine(fs, list, k) ==
  IF k > Len(list) THEN ""
  ELSE Section(fs, list[k]) \o Combine(fs, list, k + 1)

\* a bundler that reads every file of the list without asking whether it
\* exists: readFileSync throws on the first one that is missing
UnreadableUnguarded(fs, list) ==
  \E k \in 1..Len(list) : ~IsFile(fs, list[k])

\* existsSync is true of a directory too, and readFileSync then throws
Unreadable(fs, list) ==
  \E k \in 1..Len(list) : existsSync(fs, list[k]) /\ ~IsFile(fs, list[k])

\* the recursive copy of a directory.  The entries are copied one by one;
\* the copies of different entries write different paths, so the order of
\* readdirSync does not show in the result.
RECURSIVE copyDirectory(_, _, _)
RECURSIVE CopyItems(_, _, _, _)
copyDirectory(fs, src, dest) ==
  LET made == EnsureDir(fs, dest)
  IN  CopyItems(made, src, dest, readdirSync(made, src))

CopyItems(fs, src, dest, items) ==
  IF items = {} \/ fs.err # "" THEN fs
  ELSE LET item     == CHOOSE it \in items : TRUE
           srcPath  == PathJoin(src, item)
           destPath == PathJoin(dest, item)
           copied   == IF IsDir(fs, srcPath)
                       THEN copyDirectory(fs, srcPath, destPath)
                       ELSE copyFileSync(fs, srcPath, destPath)
       IN  CopyItems(copied, src, dest, items \ {item})

\* a copyAssets that returns when there is no assets directory, fonts or no
\* fonts
copyAssetsUnlessMissing(fs) ==
  IF ~existsSync(fs, "assets") THEN fs
  ELSE LET a == copyDirectory(fs, "assets", PathJoin(outputDir, "assets"))
       IN  IF a.err = "" /\ existsSync(a, "fonts")
           THEN copyDirectory(a, "fonts", PathJoin(outputDir, "fonts"))
           ELSE a

\* copyAssets: assets, then fonts, each only when it exists
copyAssets(fs) ==
  LET a == IF existsSync(fs, "assets")
           THEN copyDirectory(fs, "assets", PathJoin(outputDir, "assets"))
           ELSE fs
  IN  IF a.err = "" /\ existsSync(a, "fonts")
      THEN copyDirectory(a, "fonts", PathJoin(outputDir, "fonts"))
      ELSE a

(***************************************************************************)
(* build(): one action for each stage.  A stage whose fs call throws takes  *)
(* the process to the catch block: the message is reported and the process  *)
(* exits with status 1.                                                     *)
(***************************************************************************)

\* a catch block that reports the error and does not call process.exit
FinishWithoutExit(fs, next, first, rest) ==
  /\ files' = fs.files
  /\ dirs' = fs.dirs
  /\ exitCode' = exitCode
  /\ IF fs.err = ""
     THEN /\ pc' = next
          /\ console' = console \o first \o rest
     ELSE /\ pc' = "failed"
          /\ console' = console \o first \o <<"Build failed: " \o fs.err>>

\* a catch block that removes what the run has left in the output directory
\* before it reports the error and exits
FinishCleaning(fs, next, first, rest) ==
  /\ dirs' = fs.dirs
  /\ IF fs.err = ""
     THEN /\ files' = fs.files
          /\ pc' = next
          /\ console' = console \o first \o rest
          /\ exitCode' = exitCode
     ELSE /\ files' = [p \in {q \in DOMAIN fs.files : ~StartsAt(q, 1, outputDir \o "/")}
                         |-> fs.files[p]]
          /\ pc' = "failed"
          /\ console' = console \o first \o <<"Build failed: " \o fs.err>>
          /\ exitCode' = 1

\* the end of a stage that has left the file system as fs: the stage has
\* logged its first message; when nothing was thrown it logs the rest and
\* build goes on at next, otherwise the catch block runs
Finish(fs, next, first, rest) ==
  /\ files' = fs.files
  /\ dirs' = fs.dirs
  /\ IF fs.err = ""
     THEN /\ pc' = next
          /\ console' = console \o first \o rest
          /\ exitCode' = exitCode
     ELSE /\ pc' = "failed"
          /\ console' = console \o first \o <<"Build failed: " \o fs.err>>
          /\ exitCode' = 1

\* node build-production.js: a new process, a new builder, build() is called
StartBuild ==
  /\ pc \in {"idle", "done", "failed"}
  /\ runsLeft > 0
  /\ runsLeft' = runsLeft - 1
  /\ pc' = "createOutputDirectory"
  /\ console' = <<"Starting production build...">>
  /\ exitCode' = -1
  /\ combined' = [css |-> "", js |-> ""]
  /\ previous' = IF pc = "idle" THEN previous ELSE <<files>>
  /\ UNCHANGED <<files, dirs>>
  /\ UNCHANGED browser

\* a build() that calls minifyJavaScript right after createOutputDirectory
CreateOutputDirectoryThenJavaScript ==
  /\ pc = "createOutputDirectory"
  /\ Finish(createOutputDirectory(FS(files, dirs)), "minifyJavaScript", <<>>, <<>>)
  /\ UNCHANGED <<runsLeft, combined, previous>>
  /\ UNCHANGED browser

CreateOutputDirectory ==
  /\ pc = "createOutputDirectory"
  /\ Finish(createOutputDirectory(FS(files, dirs)), "minifyCSS", <<>>, <<>>)
  /\ UNCHANGED <<runsLeft, combined, previous>>
  /\ UNCHANGED browser

MinifyCSS ==
  /\ pc = "minifyCSS"
  /\ LET fs == FS(files, dirs) IN
     IF Unreadable(fs, cssFiles)
     THEN /\ Finish(Throw(fs, "EISDIR: illegal operation on a directory, read"),
                    "failed", <<"Minifying CSS files...">>, <<>>)
          /\ UNCHANGED combined
     ELSE LET combinedCSS == Combine(fs, cssFiles, 1) IN
          /\ combined' = [combined EXCEPT !.css = combinedCSS]
          /\ Finish(writeFileSync(fs, StylesMinCss, minifyCSSContent(combinedCSS)),
                    "minifyJavaScript",
                    <<"Minifying CSS files...">>, <<"CSS minification completed">>)
  /\ UNCHANGED <<runsLeft, previous>>
  /\ UNCHANGED browser

MinifyJavaScript ==
  /\ pc = "minifyJavaScript"
  /\ LET fs == FS(files, dirs) IN
     IF Unreadable(fs, jsFiles)
     THEN /\ Finish(Throw(fs, "EISDIR: illegal operation on a directory, read"),
                    "failed", <<"Minifying JavaScript files...">>, <<>>)
          /\ UNCHANGED combined
     ELSE LET combinedJS == Combine(fs, jsFiles, 1) IN
          /\ combined' = [combined EXCEPT !.js = combinedJS]
          /\ Finish(writeFileSync(fs, ScriptsMinJs, minifyJSContent(combinedJS)),
                    "extractCriticalCSS",
                    <<"Minifying JavaScript files...">>,
                    <<"JavaScript minification completed">>)
  /\ UNCHANGED <<runsLeft, previous>>
  /\ UNCHANGED browser

ExtractCriticalCSS ==
  /\ pc = "extractCriticalCSS"
  /\ LET fs == FS(files, dirs) IN
     IF ~IsFile(fs, StylesMinCss)
     THEN Finish(Throw(fs, "ENOENT: no such file or directory, open"),
                 "failed", <<"Extracting critical CSS...">>, <<>>)
     ELSE Finish(writeFileSync(fs, CriticalMinCss,
                               CriticalCSSOf(fs.files[StylesMinCss])),
                 "copyAssets",
                 <<"Extracting critical CSS...">>,
                 <<"Critical CSS extraction completed">>)
  /\ UNCHANGED <<runsLeft, combined, previous>>
  /\ UNCHANGED browser

CopyAssets ==
  /\ pc = "copyAssets"
  /\ Finish(copyAssets(FS(files, dirs)), "updateHTMLForProduction",
            <<"Copying assets...">>, <<"Assets copied successfully">>)
  /\ UNCHANGED <<runsLeft, combined, previous>>
  /\ UNCHANGED browser

UpdateHTMLForProduction ==
  /\ pc = "updateHTMLForProduction"
  /\ LET fs == FS(files, dirs) IN
     IF ~IsFile(fs, "index.html") \/ ~IsFile(fs, CriticalMinCss)
     THEN Finish(Throw(fs, "ENOENT: no such file or directory, open"),
                 "failed", <<"Updating HTML for production...">>, <<>>)
     ELSE Finish(writeFileSync(fs, DistIndexHtml,
                               ProductionHTML(fs.files["index.html"],
                                              fs.files[CriticalMinCss])),
                 "done",
                 <<"Updating HTML for production...">>,
                 <<"Production HTML created",
                   "Production build completed successfully!">>)
  /\ UNCHANGED <<runsLeft, combined, previous>>
  /\ UNCHANGED browser

Next ==
  \/ StartBuild
  \/ CreateOutputDirectory
  \/ MinifyCSS
  \/ MinifyJavaScript
  \/ ExtractCriticalCSS
  \/ CopyAssets
  \/ UpdateHTMLForProduction

(***************************************************************************)
(* The disks the script is run on                                          *)
(***************************************************************************)

\* the texts made of at most n of the parts, in any order
Texts(parts, n) == {Join(q) : q \in UNION {[1..k -> parts] : k \in 0..n}}

\* the directories that hold the files of f
DirsOf(f) == UNION {PathPrefixes(Dirname(p)) : p \in DOMAIN f} \ {"."}

NoFiles == [p \in {} |-> ""]

\* the files list[i], i in have, with the texts in list order or, reversed,
\* in the opposite order (so that every file is tried short and long)
ListedFiles(list, texts, have, reversed) ==
  [p \in {list[i] : i \in have} |->
     LET i == CHOOSE j \in have : list[j] = p
     IN  texts[IF reversed THEN Len(list) + 1 - i ELSE i]]

CssSources ==
  << ":root {\n  --gap: 4px;\n}\nbody { margin: 0; }\n",
     ".logo { width: 10px; }\n",
     "@media (max-width: 600px) {\n  .nav-menu { display: none; }\n}\n",
     "",
     "/* headings */\nh1, .event-title { font-weight: 700; }\n",
     "img{max-width:100%}" >>

JsSources ==
  << "var a = 1; // one\n",
     "/* lazy */\nfunction f() { return a + 1; }\n",
     "new SiteManager();",
     "",
     "var u = \"http://a.b\"; // url\n",
     "if (a < 2) {\n  f();\n}\n",
     "x = a / 2;\n" >>

BaseHtml ==
  "<html>\n<head>\n    " \o AuthorMeta
    \o "\n    <link rel=\"stylesheet\" href=\"css/main.css\">\n</head>\n<body>\n"
    \o "    <script src=\"js/main.js\"></script>\n</body>\n</html>\n"

IndexHtml(text) == [p \in {"index.html"} |-> text]

AssetTrees ==
  { NoFiles,
    [p \in {"assets/logo.png"} |-> "PNG-1"],
    [p \in {"assets/logo.png", "assets/Full logo/Logo transparent-03.png"} |->
       IF p = "assets/logo.png" THEN "PNG-1" ELSE "PNG-2"] }

FontTrees == { NoFiles, [p \in {"fonts/Aurora.otf"} |-> "OTF"] }

\* what an earlier build of other sources has left in the output directory
StaleOutput ==
  [p \in {"dist/index.html", "dist/css/styles.min.css", "dist/assets/old.png"} |->
     "stale " \o p]

AllOf(list) == 1..Len(list)

BaseTree ==
  IndexHtml(BaseHtml) @@ [p \in {"assets/logo.png"} |-> "PNG-1"]
    @@ [p \in {"fonts/Aurora.otf"} |-> "OTF"]

\* the number of times the script is run in a row
MaxRuns == 2

\* the disks of Spec: every subset of the CSS list, every subset of the JS
\* list, and every combination of a present or absent index.html, assets
\* tree, fonts tree and earlier output
PipelineDisks ==
  {ListedFiles(cssFiles, CssSources, have, rev)
     @@ ListedFiles(jsFiles, JsSources, {3}, FALSE) @@ BaseTree :
       have \in SUBSET AllOf(cssFiles), rev \in BOOLEAN}
  \cup
  {ListedFiles(jsFiles, JsSources, have, rev)
     @@ ListedFiles(cssFiles, CssSources, {1}, FALSE) @@ BaseTree :
       have \in SUBSET AllOf(jsFiles), rev \in BOOLEAN}
  \cup
  {html @@ assets @@ fonts @@ stale
     @@ ListedFiles(cssFiles, CssSources, {1, 2}, FALSE)
     @@ ListedFiles(jsFiles, JsSources, {1, 3}, FALSE) :
       html \in {NoFiles, IndexHtml(BaseHtml)}, assets \in AssetTrees,
       fonts \in FontTrees, stale \in {NoFiles, StaleOutput}}

\* the state before the script is first run on disk, runs times in a row
Start(disk, runs) ==
  /\ files = disk
  /\ dirs = DirsOf(disk)
  /\ pc = "idle"
  /\ runsLeft = runs
  /\ combined = [css |-> "", js |-> ""]
  /\ console = <<>>
  /\ exitCode = -1
  /\ previous = <<>>
  /\ PageIdle

Init == \E disk \in PipelineDisks : Start(disk, MaxRuns)

Spec == Init /\ [][Next]_vars

(***************************************************************************)
(* Disks that vary one source text: the JS, the CSS, the page              *)
(***************************************************************************)

OneFile(path, text) == [p \in {path} |-> text]

UrlStatement == "const url = \"https://example.com\";"

TrailingComment == " // real comment"

\* pieces of JS source lines: statements, line comments with and without a
\* URL, a block comment, line ends
JsParts ==
  { UrlStatement, TrailingComment, "\n", "x = 1;", " // see http://a.b",
    "/* c */" }

\* the number of pieces a JS source text is made of, at most
MaxJsParts == 3

JsDisks ==
  {OneFile("js/main.js", text) @@ IndexHtml(BaseHtml) :
     text \in Texts(JsParts, MaxJsParts)}

InitJs == \E disk \in JsDisks : Start(disk, 1)

SpecJs == InitJs /\ [][Next]_vars

\* CSS rules: custom properties, rules of listed selectors, rules whose
\* selector only ends with a listed selector, a rule inside an at-rule, a
\* rule with a closing brace inside a string
CssParts ==
  { ":root { --c: #fff; }\n",
    "body { margin: 0; }\n",
    "tbody { color: red; }\n",
    ".x .nav-link { left: 0; }\n",
    "h1, .logo { top: 0; }\n",
    "@media print {\n  .nav-menu { display: none; }\n}\n",
    ".cta-button { content: \"}\"; }\n",
    ".hero-section { color: blue }\n" }

\* the number of rules a CSS source text is made of, at most
MaxCssRules == 3

CssDisks ==
  {OneFile("css/main.css", text) @@ IndexHtml(BaseHtml) :
     text \in Texts(CssParts, MaxCssRules)}

InitCss == \E disk \in CssDisks : Start(disk, 1)

SpecCss == InitCss /\ [][Next]_vars

MainCssLink == "<link rel=\"stylesheet\" href=\"css/main.css\">"

MainJsScript == "<script src=\"js/main.js\"></script>"

\* the head of the page, behind the author meta tag: the stylesheet link
\* with different indentations and line ends
HeadVariants ==
  { "    " \o MainCssLink \o "\n",
    MainCssLink,
    "\t" \o MainCssLink \o "\r\n",
    "  " \o MainCssLink \o " " \o MainCssLink \o "\n" }

\* what the body of the page is made of: the script tag, indentations and
\* a line end
BodyParts == { MainJsScript, "    ", "  ", "\n" }

\* the number of pieces the body of the page is made of, at most
MaxBodyParts == 3

\* the CSS of the page: one whose critical rules are plain text, and one
\* whose critical rule holds the replacement pattern "$&"
PageStyles ==
  { ":root { --c: #fff; }\n.logo { top: 0 }\nfooter { top: 1px }\n",
    ".logo::before { top: 0 }\n.logo { content: \"$&\"; }\n" }

PageOf(head, body) ==
  "<html>\n<head>\n    " \o AuthorMeta \o "\n" \o head
    \o "</head>\n<body>\n" \o body \o "</body>\n</html>\n"

HtmlDisks ==
  {IndexHtml(PageOf(head, body)) @@ OneFile("css/main.css", css) :
     head \in HeadVariants, body \in Texts(BodyParts, MaxBodyParts),
     css \in PageStyles}

InitHtml == \E disk \in HtmlDisks : Start(disk, 1)

SpecHtml == InitHtml /\ [][Next]_vars

(***************************************************************************)
(* Disks that vary the trees of assets and fonts                           *)
(***************************************************************************)

\* how many directories deep a file of a tree stands, at most, counting the
\* root of the tree
MaxDepth == 3

\* the paths of the files of a tree below root: files of two names, in root
\* and in directories nested in it
RECURSIVE TreePaths(_, _)
TreePaths(root, depth) ==
  IF depth = 0 THEN {}
  ELSE {PathJoin(root, "logo.png"), PathJoin(root, "site map.svg")}
         \cup TreePaths(PathJoin(root, "img"), depth - 1)

\* the files at paths, each with a content of its own
FilesAt(paths) == [p \in paths |-> "bytes of " \o p]

\* no assets directory or one with any of the files; no fonts directory, a
\* font, or a font in a directory of the fonts directory
AssetDisks ==
  {FilesAt(assets) @@ FilesAt(fonts) @@ IndexHtml(BaseHtml) :
     assets \in SUBSET TreePaths("assets", MaxDepth),
     fonts \in {{}, {"fonts/Aurora.otf"}, {"fonts/Aurora.otf", "fonts/woff/Aurora.woff"}}}

InitAssets == \E disk \in AssetDisks : Start(disk, 1)

SpecAssets == InitAssets /\ [][Next]_vars

(***************************************************************************)
(* Disks that vary the declarations of one CSS rule                        *)
(***************************************************************************)

\* what stands between the last declaration of a rule and its closing
\* brace: semicolons, spaces, line ends
DeclParts == { ";", " ", "\n" }

\* the number of pieces between the declaration and the brace, at most
MaxDeclParts == 4

DeclDisks ==
  {OneFile("css/main.css", "a{b:c" \o text \o "}\n") @@ IndexHtml(BaseHtml) :
     text \in Texts(DeclParts, MaxDeclParts)}

InitDecl == \E disk \in DeclDisks : Start(disk, 1)

SpecDecl == InitDecl /\ [][Next]_vars

(***************************************************************************)
(* Pages that vary the markers of the HTML rewrite                         *)
(***************************************************************************)

\* the number of </head> and of </body> tags a page holds, at most
MaxEndTags == 2

\* n copies of text
RECURSIVE Repeat(_, _)
Repeat(text, n) == IF n = 0 THEN "" ELSE text \o Repeat(text, n - 1)

\* a page with or without the author meta tag, and with any number of
\* </head> and </body> tags
MarkerPage(author, heads, bodies) ==
  "<html>\n<head>\n"
    \o (IF author THEN "    " \o AuthorMeta \o "\n" ELSE "")
    \o "    " \o MainCssLink \o "\n" \o Repeat("</head>\n", heads)
    \o "<body>\n    " \o MainJsScript \o "\n" \o Repeat("</body>\n", bodies)
    \o "</html>\n"

\* CSS whose critical rules hold a "$": followed by "&", by a quote, by a
\* digit, by another "$"
DollarStyles ==
  PageStyles
    \cup { ".logo { content: \"$'\"; }\n",
           ".logo { content: \"$1\"; }\n",
           ".logo { content: \"$$\"; }\n" }

MarkerDisks ==
  {IndexHtml(MarkerPage(author, heads, bodies)) @@ OneFile("css/main.css", css) :
     author \in BOOLEAN, heads \in 0..MaxEndTags, bodies \in 0..MaxEndTags,
     css \in DollarStyles}

InitMarkers == \E disk \in MarkerDisks : Start(disk, 1)

SpecMarkers == InitMarkers /\ [][Next]_vars

(***************************************************************************)
(* Disks that vary the output directory: what is there before the build,   *)
(* and what stands in the way of a stage                                   *)
(***************************************************************************)

\* the subdirectories createOutputDirectory makes
RequiredDirs == {PathJoin(outputDir, d) : d \in {"css", "js", "assets", "fonts"}}

\* the sources of a build that goes through
BuildableTree ==
  BaseTree @@ OneFile("css/main.css", CssSources[1])
    @@ OneFile("js/main.js", JsSources[1])

\* a file in each of the directories ds, left there before the build
KeptFiles(ds) == [p \in {PathJoin(d, "keep.txt") : d \in ds} |-> "kept " \o p]

\* f without the paths of w
Without(f, w) == [p \in DOMAIN f \ w |-> f[p]]

\* the output root with any of its subdirectories already made, empty or
\* each with a file in it, and a disk with no output directory at all
ExistingOutputs ==
  {[files   |-> IF full THEN KeptFiles(made \cup {outputDir}) ELSE NoFiles,
    dirs    |-> made \cup {outputDir},
    without |-> {}] : made \in SUBSET RequiredDirs, full \in BOOLEAN}
  \cup {[files |-> NoFiles, dirs |-> {}, without |-> {}]}

\* what makes a stage throw: a source that cannot be read, a path of the
\* output that cannot be written
Obstacles ==
  { [files |-> NoFiles, dirs |-> {}, without |-> {"index.html"}],
    [files |-> NoFiles, dirs |-> {"css/main.css"}, without |-> {"css/main.css"}],
    [files |-> NoFiles, dirs |-> {"js/main.js"}, without |-> {"js/main.js"}],
    [files |-> OneFile(outputDir, "not a directory"), dirs |-> {}, without |-> {}],
    [files |-> NoFiles, dirs |-> {StylesMinCss}, without |-> {}],
    [files |-> NoFiles, dirs |-> {ScriptsMinJs}, without |-> {}],
    [files |-> NoFiles, dirs |-> {CriticalMinCss}, without |-> {}],
    [files |-> OneFile(PathJoin(outputDir, "assets"), "not a directory"),
     dirs |-> {outputDir}, without |-> {}],
    [files |-> NoFiles, dirs |-> {DistIndexHtml}, without |-> {}],
    [files |-> StaleOutput, dirs |-> {}, without |-> {"index.html"}] }

OutputDisks == ExistingOutputs \cup Obstacles

InitOutput ==
  \E o \in OutputDisks :
    /\ files = Without(BuildableTree, o.without) @@ o.files
    /\ dirs = DirsOf(Without(BuildableTree, o.without) @@ o.files)
                \cup UNION {PathPrefixes(d) : d \in o.dirs}
    /\ pc = "idle"
    /\ runsLeft = MaxRuns
    /\ combined = [css |-> "", js |-> ""]
    /\ console = <<>>
    /\ exitCode = -1
    /\ previous = <<>>
    /\ PageIdle

SpecOutput == InitOutput /\ [][Next]_vars

(***************************************************************************)
(* Properties of the bundlers and of the whole build                       *)
(***************************************************************************)

\* the provenance line of a file
Provenance(file) == "/* " \o file \o " */\n"

\* the entries of list whose file is on disk
Existing(list) == {k \in AllOf(list) : list[k] \in DOMAIN files}

\* the section text has to hold for entry k of list
SectionText(list, k) == Provenance(list[k]) \o files[list[k]] \o "\n\n"

\* text is made of the sections of the existing files of list and of
\* nothing else: the section of the first existing entry starts the text,
\* the section of each later one starts where the section of the existing
\* entry before it ends, and the last one ends the text
InListOrder(text, list) ==
  LET have  == Existing(list)
      at(k) == IndexOf(text, Provenance(list[k]))
      end(k) == at(k) + Len(SectionText(list, k))
  IN  /\ \A k \in have :
           /\ CountOcc(text, Provenance(list[k])) = 1
           /\ StartsAt(text, at(k), SectionText(list, k))
           /\ (\A j \in have : j >= k) => at(k) = 1
           /\ (\A j \in have : j <= k) => end(k) = Len(text) + 1
           /\ \A j \in have :
                (j < k /\ \A i \in have : ~(j < i /\ i < k)) => at(k) = end(j)
      /\ have = {} => text = ""

\* a bundler has just built its text
CssBundled == pc = "minifyJavaScript"

JsBundled == pc = "extractCriticalCSS"

\* C6: in the combined CSS text and in the combined JS text the sections of
\* the files that exist appear in the order of the configured list, each
\* exactly once and each behind its provenance line, whichever files exist
\* and whatever their sizes.
C6_OrderPreserved ==
  /\ CssBundled => InListOrder(combined.css, cssFiles)
  /\ JsBundled => InListOrder(combined.js, jsFiles)

\* some files of both lists are missing and others, of different sizes, are
\* there, out of list order as far as their sizes go, and both were bundled
C6_Witness ==
  /\ JsBundled
  /\ Existing(cssFiles) = {2, 3, 5, 6}
  /\ Len(files[cssFiles[2]]) < Len(files[cssFiles[3]])
  /\ Len(files[cssFiles[6]]) < Len(files[cssFiles[5]])
  /\ InListOrder(combined.css, cssFiles)
  /\ Len(combined.css) > 0

\* the stage that logged message as its first has thrown
ThrownIn(message) ==
  /\ pc = "failed"
  /\ Len(console) >= 2
  /\ console[Len(console) - 1] = message

\* the bundle text holds the section of every existing entry of list and
\* no provenance line of a missing one
OmitsMissing(text, list) ==
  /\ \A k \in Existing(list) : Includes(text, SectionText(list, k))
  /\ \A k \in AllOf(list) \ Existing(list) : ~Includes(text, Provenance(list[k]))

\* C7: when the file of an entry of cssFiles or jsFiles is absent, the
\* bundling stage does not throw, the build goes on, and the bundle holds
\* the sections of the other entries and nothing of the missing one.
C7_MissingFileTolerated ==
  /\ ~ThrownIn("Minifying CSS files...")
  /\ ~ThrownIn("Minifying JavaScript files...")
  /\ CssBundled => OmitsMissing(combined.css, cssFiles)
  /\ JsBundled => OmitsMissing(combined.js, jsFiles)

\* a build with one CSS file missing has gone through to its end
C7_Witness ==
  /\ pc = "done"
  /\ Existing(cssFiles) = AllOf(cssFiles) \ {3}
  /\ ~Includes(combined.css, Provenance(cssFiles[3]))
  /\ Includes(combined.css, SectionText(cssFiles, 4))
  /\ StylesMinCss \in DOMAIN files

\* the files below the output directory
OutputOf(f) == {p \in DOMAIN f : StartsAt(p, 1, outputDir \o "/")}

\* a second run in a row has ended
RanTwice == pc \in {"done", "failed"} /\ previous # <<>>

\* C5: a second run of build on unchanged inputs leaves every output
\* artifact as the first run left it, byte for byte.
C5_Idempotent ==
  RanTwice =>
    /\ OutputOf(files) = OutputOf(previous[1])
    /\ \A p \in OutputOf(files) : files[p] = previous[1][p]

\* both runs went through, over earlier output, and wrote all the artifacts
C5_Witness ==
  /\ RanTwice
  /\ pc = "done"
  /\ {StylesMinCss, CriticalMinCss, ScriptsMinJs, DistIndexHtml,
      "dist/assets/logo.png", "dist/fonts/Aurora.otf", "dist/assets/old.png"}
        \subseteq OutputOf(files)
  /\ Len(files[CriticalMinCss]) > 0

(***************************************************************************)
(* Properties of the JS minifier                                           *)
(***************************************************************************)

\* C1: for a JS line that holds a string literal with an http(s) URL and,
\* behind it, a line comment, the minified JS holds the string literal
\* "https://example.com" intact and nothing of the comment.
C1_UrlKeptCommentRemoved ==
  (JsBundled /\ Includes(files["js/main.js"], UrlStatement \o TrailingComment))
    => /\ Includes(files[ScriptsMinJs], "\"https://example.com\"")
       /\ ~Includes(files[ScriptsMinJs], "real comment")

(***************************************************************************)
(* Properties of the critical-CSS extractor                                *)
(***************************************************************************)

\* extractCriticalCSS has just written critical.min.css
Extracted == pc = "copyAssets"

\* the pieces of text, each ending with a "}" of it (a rule block holds one
\* "}", its last character); what follows the last "}" is a piece too
RECURSIVE Blocks(_, _)
Blocks(text, i) ==
  IF i > Len(text) THEN <<>>
  ELSE LET e == IndexOfFrom(text, "}", i) IN
       IF e = 0 THEN <<SubSeq(text, i, Len(text))>>
       ELSE <<SubSeq(text, i, e)>> \o Blocks(text, e + 1)

\* C8: every rule block written to critical.min.css occurs verbatim, as a
\* contiguous piece, in the styles.min.css that was read.
C8_Contained ==
  Extracted =>
    \A k \in DOMAIN Blocks(files[CriticalMinCss], 1) :
      Includes(files[StylesMinCss], Blocks(files[CriticalMinCss], 1)[k])

\* blocks of three different rules were extracted
C8_Witness ==
  /\ Extracted
  /\ Cardinality({Blocks(files[CriticalMinCss], 1)[k] :
                    k \in DOMAIN Blocks(files[CriticalMinCss], 1)}) >= 3

\* the :root blocks of the full CSS, in document order
RootBlocks(fullCSS) == MatchAll(fullCSS, RuleBlock(fullCSS, ":root"), 1)

\* the places, among the blocks of the critical CSS, of the blocks that
\* are not :root blocks
OtherBlocks(criticalCSS) ==
  {k \in DOMAIN Blocks(criticalCSS, 1) :
     ~StartsAt(Blocks(criticalCSS, 1)[k], 1, ":root")}

\* C9: when the minified CSS holds a :root block and a block of another
\* critical selector, all its :root blocks, in document order, stand in
\* critical.min.css before the first block of any other selector.
C9_RootFirst ==
  LET roots  == RootBlocks(files[StylesMinCss])
      blocks == Blocks(files[CriticalMinCss], 1)
  IN  (Extracted /\ roots # <<>> /\ OtherBlocks(files[CriticalMinCss]) # {})
        => /\ \A k \in OtherBlocks(files[CriticalMinCss]) : k > Len(roots)
           /\ SubSeq(blocks, 1, Len(roots)) = roots

\* the :root rule stands last in the source, behind two critical rules
C9_Witness ==
  /\ Extracted
  /\ files["css/main.css"] =
       "body { margin: 0; }\n.hero-section { color: blue }\n:root { --c: #fff; }\n"
  /\ StartsAt(files[CriticalMinCss], 1, ":root{--c:#fff}")
  /\ Includes(files[CriticalMinCss], "body{margin:0}")

\* the number of occurrences of character c in the first n characters
CountIn(text, n, c) == Cardinality({j \in 1..n : Ch(text, j) = c})

\* block is a whole rule of fullCSS whose selector is in the list: it stands
\* in fullCSS where a rule starts, outside of every at-rule, its selector is
\* an entry of the list, and it is not cut inside a string
WholeListedRule(fullCSS, block) ==
  /\ \E i \in 1..Len(fullCSS) :
       /\ StartsAt(fullCSS, i, block)
       /\ i = 1 \/ Ch(fullCSS, i - 1) = "}"
       /\ CountIn(fullCSS, i - 1, "{") = CountIn(fullCSS, i - 1, "}")
  /\ \E k \in DOMAIN criticalSelectors :
       StartsAt(block, 1, criticalSelectors[k] \o "{")
  /\ CountIn(block, Len(block), "\"") % 2 = 0

\* C10: every block written to critical.min.css is a whole rule of the
\* minified CSS whose selector is an entry of the selector list: nothing is
\* written for a rule whose selector only ends with a listed selector, no
\* rule is cut short and none is taken out of its at-rule.
C10_WholeListedRules ==
  Extracted =>
    \A k \in DOMAIN Blocks(files[CriticalMinCss], 1) :
      WholeListedRule(files[StylesMinCss], Blocks(files[CriticalMinCss], 1)[k])

(***************************************************************************)
(* Properties of the HTML rewrite                                          *)
(***************************************************************************)

\* build has written dist/index.html
Rewritten == pc = "done"

\* C2: when the source page holds the stylesheet link of css/main.css and
\* the script tag of js/main.js, a </head> and a </body>, whatever the
\* indentation and the line breaks around the tags, the page written holds
\* neither of the two tags.
C2_OriginalTagsRemoved ==
  (/\ Rewritten
   /\ Includes(files["index.html"], MainCssLink)
   /\ Includes(files["index.html"], MainJsScript)
   /\ Includes(files["index.html"], "</head>")
   /\ Includes(files["index.html"], "</body>"))
    => /\ ~Includes(files[DistIndexHtml], MainCssLink)
       /\ ~Includes(files[DistIndexHtml], MainJsScript)

C4_OneBundleScriptBeforeBodyEnd ==
  Rewritten =>
    LET out == files[DistIndexHtml]
        tag == "<script src=\"js/scripts.min.js\"></script>"
        b   == IndexOf(out, "</body>")
    IN  /\ CountOcc(out, tag) = 1
        /\ b > 0
        /\ StartsAt(out, b - Len(tag) - 1, tag \o "\n</body>")

\* a page whose script line was removed was rewritten: the script tag of
\* the bundle is the only one left
C4_Witness ==
  /\ Rewritten
  /\ Includes(files["index.html"], "    " \o MainJsScript \o "\n</body>")
  /\ ~Includes(files[DistIndexHtml], MainJsScript)
  /\ Includes(files[DistIndexHtml],
              "<body>\n    <script src=\"js/scripts.min.js\"></script>\n</body>")

(***************************************************************************)
(* Properties of build() and of the output directory                       *)
(***************************************************************************)

\* the stages of build(), in the order of the claim
StageOrder ==
  << "createOutputDirectory", "minifyCSS", "minifyJavaScript",
     "extractCriticalCSS", "copyAssets", "updateHTMLForProduction" >>

\* what a build that goes through logs, line by line
FullLog ==
  << "Starting production build...",
     "Minifying CSS files...", "CSS minification completed",
     "Minifying JavaScript files...", "JavaScript minification completed",
     "Extracting critical CSS...", "Critical CSS extraction completed",
     "Copying assets...", "Assets copied successfully",
     "Updating HTML for production...", "Production HTML created",
     "Production build completed successfully!" >>

\* what stage k has logged when it ends: createOutputDirectory logs nothing,
\* every later stage a first and a last line
LoggedThrough(k) == SubSeq(FullLog, 1, k + k - 1)

\* a step of build() from one position to another
StageStep ==
  \/ /\ pc \in {"idle", "done", "failed"}
     /\ pc' = StageOrder[1]
  \/ \E k \in DOMAIN StageOrder :
       /\ pc = StageOrder[k]
       /\ console = LoggedThrough(k - 1) \o (IF k = 1 THEN <<FullLog[1]>> ELSE <<>>)
       /\ \/ /\ k < Len(StageOrder)
             /\ pc' = StageOrder[k + 1]
             /\ console' = LoggedThrough(k)
          \/ /\ k = Len(StageOrder)
             /\ pc' = "done"
             /\ console' = FullLog
          \/ pc' = "failed"

\* C11: in every run of build() the stages start in the order
\* createOutputDirectory, minifyCSS, minifyJavaScript, extractCriticalCSS,
\* copyAssets, updateHTMLForProduction: the process is in one stage at a
\* time, a stage starts only from the end of the stage before it, whose last
\* line is then the last line logged, and the first stage starts only from
\* the start of a run.
C11_StagesInOrder == [][pc' # pc => StageStep]_vars

\* a build has gone through all six stages and logged them in order
C11_Witness ==
  /\ pc = "done"
  /\ console = FullLog
  /\ {StylesMinCss, ScriptsMinJs, CriticalMinCss, DistIndexHtml} \subseteq DOMAIN files

\* the catch block has run: the error is the last line logged, behind the
\* lines of the stages that ended and the first line of the one that threw
FailureReported ==
  LET n == Len(console) - 1 IN
  /\ n >= 1
  /\ SubSeq(console, 1, n) = SubSeq(FullLog, 1, n)
  /\ n = 1 \/ n % 2 = 0
  /\ StartsAt(console[n + 1], 1, "Build failed: ")
  /\ Len(console[n + 1]) > Len("Build failed: ")

\* C12: when a stage of build() throws, the error message is reported, the
\* process exits with status 1 and no later stage is executed (nothing is
\* logged or written until the script is run again); when no stage throws,
\* all six stages have run, the four artifacts are written and process.exit
\* is not called with a status other than 0.
C12_FailureAborts ==
  /\ [](pc = "failed" => (exitCode = 1 /\ FailureReported))
  /\ [](pc = "done" =>
          /\ exitCode = -1
          /\ console = FullLog
          /\ {StylesMinCss, ScriptsMinJs, CriticalMinCss, DistIndexHtml}
               \subseteq DOMAIN files)
  /\ [](pc \in {StageOrder[k] : k \in DOMAIN StageOrder} => exitCode = -1)
  /\ [](("index.html" \notin DOMAIN files \/ StylesMinCss \in dirs) => pc # "done")
  /\ [][pc = "failed" =>
          /\ pc' = StageOrder[1]
          /\ UNCHANGED <<files, dirs>>]_vars

\* extractCriticalCSS could not write critical.min.css: the stages before
\* it have written their files, the stages behind it have written nothing
C12_Witness ==
  /\ pc = "failed"
  /\ exitCode = 1
  /\ CriticalMinCss \in dirs
  /\ {StylesMinCss, ScriptsMinJs} \subseteq DOMAIN files
  /\ DistIndexHtml \notin DOMAIN files
  /\ "dist/assets/logo.png" \notin DOMAIN files

\* the directories directly below the output root
OutputChildren(d) == {q \in d : Dirname(q) = outputDir}

\* C18: createOutputDirectory, called when the output root exists with some
\* or all of css, js, assets and fonts as its only subdirectories, does not
\* throw, leaves exactly these four subdirectories below the output root and
\* leaves every file as it is; a second call changes nothing.
C18_ExistingDirectoriesKept ==
  [][(/\ pc = "createOutputDirectory"
      /\ outputDir \in dirs
      /\ OutputChildren(dirs) \subseteq RequiredDirs
      /\ RequiredDirs \cap DOMAIN files = {})
       => /\ pc' = "minifyCSS"
          /\ files' = files
          /\ dirs \subseteq dirs'
          /\ OutputChildren(dirs') = RequiredDirs
          /\ createOutputDirectory(FS(files', dirs')) = FS(files', dirs')]_vars

\* the call was made with the output root and its css subdirectory there,
\* a file in each, and no js subdirectory yet
C18_Witness ==
  /\ pc = "minifyCSS"
  /\ previous = <<>>
  /\ {"dist/keep.txt", "dist/css/keep.txt"} \subseteq DOMAIN files
  /\ "dist/js/keep.txt" \notin DOMAIN files
  /\ StylesMinCss \notin DOMAIN files
  /\ OutputChildren(dirs) = RequiredDirs

(***************************************************************************)
(* Properties of the HTML rewrite on pages with and without its markers    *)
(***************************************************************************)

PreloadLink == "<link rel=\"preload\" href=\"css/styles.min.css\""

BundleTag == "<script src=\"js/scripts.min.js\"></script>"

\* C13: when the source index.html has no </head>, no </body> or no author
\* meta tag, updateHTMLForProduction does not throw and dist/index.html is
\* written; nothing is inserted for a marker that is missing, the insertion
\* of every marker that is there is made, and the stylesheet link and the
\* script line are removed.
C13_MissingMarkerSkipped ==
  /\ ~ThrownIn("Updating HTML for production...")
  /\ Rewritten =>
       LET src == files["index.html"]
           out == files[DistIndexHtml]
       IN  /\ Includes(out, "<style>") <=> Includes(src, "</head>")
           /\ Includes(out, PreloadLink) <=> Includes(src, "</head>")
           /\ Includes(out, BundleTag) <=> Includes(src, "</body>")
           /\ Includes(out, CachingBlock) <=> Includes(src, AuthorMeta)
           /\ ~Includes(out, MainCssLink)
           /\ ~Includes(out, MainJsScript)

\* a page without </head> and without the author meta tag was rewritten: it
\* got the script tag of the bundle and nothing else
C13_Witness ==
  /\ Rewritten
  /\ files["index.html"] = MarkerPage(FALSE, 0, 1)
  /\ files[DistIndexHtml] =
       "<html>\n<head>\n    \n<body>\n    " \o BundleTag \o "\n</body>\n</html>\n"

\* C15: the text between <style> and </style> in dist/index.html is the
\* content of critical.min.css, byte for byte, whatever the critical CSS
\* holds, a "$" followed by "&" or by a quote included.
C15_InlinedVerbatim ==
  (Rewritten /\ Includes(files["index.html"], "</head>"))
    => Includes(files[DistIndexHtml],
                "<style>" \o files[CriticalMinCss] \o "</style>")

\* C16: in dist/index.html the inlined style block stands before the
\* preload link and its noscript fallback, each is there once, and both
\* stand before the first </head> of the document, which is followed by as
\* many </head> as followed it in the source.
C16_StyleBeforePreloadOnce ==
  (Rewritten /\ Includes(files["index.html"], "</head>"))
    => LET out == files[DistIndexHtml]
           h   == IndexOf(out, "</head>")
       IN  /\ CountOcc(out, "<style>") = 1
           /\ CountOcc(out, PreloadLink) = 1
           /\ CountOcc(out, "<noscript>") = 1
           /\ IndexOf(out, "<style>") < IndexOf(out, "</style>")
           /\ IndexOf(out, "</style>") < IndexOf(out, PreloadLink)
           /\ IndexOf(out, PreloadLink) < IndexOf(out, "<noscript>")
           /\ IndexOf(out, "<noscript>") < h
           /\ CountOcc(out, "</head>") = CountOcc(files["index.html"], "</head>")

(***************************************************************************)
(* What a run leaves of an earlier run                                     *)
(***************************************************************************)

\* the files of the assets and fonts trees of f
AssetSources(f) ==
  {p \in DOMAIN f : StartsAt(p, 1, "assets/") \/ StartsAt(p, 1, "fonts/")}

\* the paths a build of the sources of f writes
WrittenPaths(f) ==
  {StylesMinCss, ScriptsMinJs, CriticalMinCss, DistIndexHtml}
    \cup {PathJoin(outputDir, p) : p \in AssetSources(f)}

\* C14, as claimed: after a run the output tree holds what the run has made
\* of the current inputs and nothing else: no file an earlier run left there
\* and the current inputs do not account for.
C14_OutputFromInputsOnly ==
  pc = "done" => OutputOf(files) = WrittenPaths(files)

\* every artifact is what the stages make of the sources on disk
ArtifactsFromSources ==
  LET fs == FS(files, dirs) IN
  /\ WrittenPaths(files) \subseteq DOMAIN files
  /\ files[StylesMinCss] = minifyCSSContent(Combine(fs, cssFiles, 1))
  /\ files[ScriptsMinJs] = minifyJSContent(Combine(fs, jsFiles, 1))
  /\ files[CriticalMinCss] = CriticalCSSOf(files[StylesMinCss])
  /\ files[DistIndexHtml] = ProductionHTML(files["index.html"], files[CriticalMinCss])
  /\ \A p \in AssetSources(files) : files[PathJoin(outputDir, p)] = files[p]

\* C14, amended: a run overwrites in full every file it writes and removes
\* nothing.  After a run that went through, the four artifacts and the copy
\* of every asset and font have the content the current inputs give them,
\* whatever stood at their paths before; no step of a run removes a file,
\* and a file of the output tree that the run does not write is left as it
\* was.
C14_OverwritesRemovesNothing ==
  /\ [](pc = "done" => ArtifactsFromSources)
  /\ [][/\ DOMAIN files \subseteq DOMAIN files'
        /\ \A p \in DOMAIN files \ WrittenPaths(files) : files'[p] = files[p]]_vars

\* a run over the output of an earlier build of other sources: the stale
\* stylesheet is overwritten, the stale asset, which has no source, is there
C14_Witness ==
  /\ pc = "done"
  /\ "assets/old.png" \notin DOMAIN files
  /\ "dist/assets/old.png" \in DOMAIN files
  /\ files["dist/assets/old.png"] = "stale dist/assets/old.png"
  /\ files[StylesMinCss] = minifyCSSContent(combined.css)
  /\ ~Includes(files[DistIndexHtml], "stale")

(***************************************************************************)
(* Properties of the passes of the extractor and of the minifiers          *)
(***************************************************************************)

\* the matches of every pass over the selectors from entry k on, pass by
\* pass
RECURSIVE PassMatches(_, _)
PassMatches(fullCSS, k) ==
  IF k > Len(criticalSelectors) THEN <<>>
  ELSE MatchAll(fullCSS,
                RuleBlock(fullCSS, escapeSelector(criticalSelectors[k])), 1)
         \o PassMatches(fullCSS, k + 1)

\* the number of places of seq that hold x
CountBlock(seq, x) == Cardinality({k \in DOMAIN seq : seq[k] = x})

\* C17: extractCriticalCSS does not deduplicate.  The blocks of
\* critical.min.css are the matches of the :root pre-pass followed by the
\* matches of the pass of each selector, in list order, each match as often
\* as the passes find it; every :root block of the minified CSS is there
\* twice as often as in the minified CSS, once from the pre-pass and once
\* from the pass of ':root', the first selector.
C17_NoDeduplication ==
  Extracted =>
    LET full   == files[StylesMinCss]
        blocks == Blocks(files[CriticalMinCss], 1)
        roots  == RootBlocks(full)
    IN  /\ blocks = roots \o PassMatches(full, 1)
        /\ SubSeq(blocks, 1, Len(roots) + Len(roots)) = roots \o roots
        /\ \A k \in DOMAIN roots :
             CountBlock(blocks, roots[k]) = CountBlock(roots, roots[k]) + CountBlock(roots, roots[k])

\* a CSS with one :root rule and the same body rule twice was extracted
C17_Witness ==
  /\ Extracted
  /\ files["css/main.css"] =
       ":root { --c: #fff; }\nbody { margin: 0; }\nbody { margin: 0; }\n"
  /\ files[CriticalMinCss] =
       ":root{--c:#fff}:root{--c:#fff}body{margin:0}body{margin:0}"

\* C19: whatever the CSS, the minified CSS holds no semicolon immediately
\* before a closing brace.
C19_NoSemicolonBeforeBrace ==
  CssBundled => ~Includes(files[StylesMinCss], ";}")

\* the rest of the line of s behind the "//" at i
Remainder(s, i) ==
  LET e == IF \E j \in i..Len(s) : Ch(s, j) = "\n"
           THEN CHOOSE j \in i..Len(s) :
                  Ch(s, j) = "\n" /\ \A k \in i..(j - 1) : Ch(s, k) # "\n"
           ELSE Len(s) + 1
  IN  SubSeq(s, i + 2, e - 1)

\* the "//" markers of s
Markers(s) == {i \in 1..Len(s) : StartsAt(s, i, "//")}

\* the marker at i is followed, on its line, by "http:" or "https:"
UrlBehind(s, i) ==
  Includes(Remainder(s, i), "http:") \/ Includes(Remainder(s, i), "https:")

\* the markers that start a removed span: those without a URL behind them
\* that no span started earlier holds
SpanStarts(s) ==
  {i \in Markers(s) :
     /\ ~UrlBehind(s, i)
     /\ ~\E j \in Markers(s) :
           j < i /\ ~UrlBehind(s, j) /\ i <= j + 1 + Len(Remainder(s, j))}

\* the positions of s inside a removed span
Removed(s) ==
  {p \in 1..Len(s) :
     \E i \in SpanStarts(s) : i <= p /\ p <= i + 1 + Len(Remainder(s, i))}

\* s from position i on, without the characters at the positions of gone
RECURSIVE KeepChars(_, _, _)
KeepChars(s, gone, i) ==
  IF i > Len(s) THEN ""
  ELSE (IF i \in gone THEN "" ELSE Ch(s, i)) \o KeepChars(s, gone, i + 1)

BeforeAuthorMeta(source, criticalCSS) ==
  LET h1 == ReplaceMatches(source, StylesheetLink(source), 1)
      h2 == ReplaceFirst(h1, "</head>", InlineStyle(criticalCSS))
      h3 == ReplaceFirst(h2, "</head>", PreloadBlock \o "</head>")
      h4 == ReplaceMatches(h3, ScriptLine(h3), 1)
  IN  ReplaceFirst(h4, "</body>", BundleScript \o "</body>")

\* C21: when the source page holds the author meta tag, the page written
\* holds the tag, unchanged, with the block of Cache-Control, Expires and
\* dns-prefetch tags right behind it, and is, but for this block, the page
\* as the earlier replacements left it.
C21_CachingBlockBehindAuthorMeta ==
  (Rewritten /\ Includes(files["index.html"], AuthorMeta))
    => LET out  == files[DistIndexHtml]
           h5   == BeforeAuthorMeta(files["index.html"], files[CriticalMinCss])
           p    == IndexOf(out, AuthorMeta)
           q    == p + Len(AuthorMeta)
       IN  /\ p > 0
           /\ p = IndexOf(h5, AuthorMeta)
           /\ StartsAt(out, q, CachingBlock)
           /\ SubSeq(out, 1, q - 1) = SubSeq(h5, 1, q - 1)
           /\ SubSeq(out, q + Len(CachingBlock), Len(out)) = SubSeq(h5, q, Len(h5))
           /\ Includes(CachingBlock, "Cache-Control")
           /\ Includes(CachingBlock, "Expires")
           /\ CountOcc(CachingBlock, "dns-prefetch") > 1

\* a page with the author meta tag, a </head> and a </body> was rewritten
C21_Witness ==
  /\ Rewritten
  /\ files["index.html"] = MarkerPage(TRUE, 1, 1)
  /\ Includes(files[DistIndexHtml],
              "<head>\n    " \o AuthorMeta \o "\n    \n    <!-- Performance")
  /\ Includes(files[DistIndexHtml],
              "<link rel=\"dns-prefetch\" href=\"//www.eventbrite.com\">\n    \n    <style>")

(***************************************************************************)
(* Properties of copyAssets                                                *)
(***************************************************************************)

\* copyAssets has just returned
Copied == pc = "updateHTMLForProduction"

\* C22: copyAssets does not throw, with or without an assets and a fonts
\* directory; when it has returned, every file below assets and below fonts,
\* however deep, has a copy of the same content at the same path below the
\* output root, in a directory that exists, and nothing else was written
\* below dist/assets and dist/fonts.
C22_TreesCopied ==
  /\ ~ThrownIn("Copying assets...")
  /\ Copied =>
       /\ \A p \in AssetSources(files) :
            /\ PathJoin(outputDir, p) \in DOMAIN files
            /\ files[PathJoin(outputDir, p)] = files[p]
            /\ Dirname(PathJoin(outputDir, p)) \in dirs
       /\ {p \in OutputOf(files) :
             \/ StartsAt(p, 1, "dist/assets/")
             \/ StartsAt(p, 1, "dist/fonts/")}
            = {PathJoin(outputDir, p) : p \in AssetSources(files)}

\* the fonts were copied on a disk without an assets directory
C22_WitnessFontsOnly ==
  /\ Copied
  /\ "assets" \notin dirs
  /\ "dist/fonts/woff/Aurora.woff" \in DOMAIN files
  /\ files["dist/fonts/woff/Aurora.woff"] = "bytes of fonts/woff/Aurora.woff"

\* files of the assets tree at three depths were copied, on
\* a disk without a fonts directory
C22_Witness ==
  /\ Copied
  /\ "fonts" \notin dirs
  /\ {"assets/logo.png", "assets/img/site map.svg", "assets/img/img/logo.png"}
       \subseteq DOMAIN files
  /\ files["dist/assets/img/img/logo.png"] = "bytes of assets/img/img/logo.png"
  /\ files["dist/assets/img/site map.svg"] = "bytes of assets/img/site map.svg"

(***************************************************************************)
(* What an aborted run leaves on disk                                      *)
(***************************************************************************)

\* the paths a stage writes
StagePaths(stage, f) ==
  IF stage = "minifyCSS" THEN {StylesMinCss}
  ELSE IF stage = "minifyJavaScript" THEN {ScriptsMinJs}
  ELSE IF stage = "extractCriticalCSS" THEN {CriticalMinCss}
  ELSE IF stage = "copyAssets" THEN {PathJoin(outputDir, p) : p \in AssetSources(f)}
  ELSE IF stage = "updateHTMLForProduction" THEN {DistIndexHtml}
  ELSE {}

\* the stage whose last line is message has ended in this run
Ended(message) == \E k \in DOMAIN console : console[k] = message

\* C23: when build() aborts, nothing is cleaned up.  Every step of a run,
\* the one that ends in the catch block included, leaves every file but
\* those of its own stage as it was, so that the files of the later stages
\* are as they were before the run; in the aborted state the artifacts of
\* the stages that have ended are the new ones, made of the current sources.
\* With index.html missing, styles.min.css, scripts.min.js and
\* critical.min.css are the new ones and dist/index.html is absent or the
\* stale one.
C23_AbortKeepsFiles ==
  /\ [][/\ \A p \in DOMAIN files \ StagePaths(pc, files) :
             p \in DOMAIN files' /\ files'[p] = files[p]
        /\ DOMAIN files' \ DOMAIN files \subseteq StagePaths(pc, files)]_vars
  /\ [](pc = "failed" =>
          LET fs == FS(files, dirs) IN
          /\ Ended(FullLog[3]) =>
               /\ StylesMinCss \in DOMAIN files
               /\ files[StylesMinCss] = minifyCSSContent(Combine(fs, cssFiles, 1))
          /\ Ended(FullLog[5]) =>
               /\ ScriptsMinJs \in DOMAIN files
               /\ files[ScriptsMinJs] = minifyJSContent(Combine(fs, jsFiles, 1))
          /\ Ended(FullLog[7]) =>
               /\ CriticalMinCss \in DOMAIN files
               /\ files[CriticalMinCss] = CriticalCSSOf(files[StylesMinCss])
          /\ Ended(FullLog[9]) =>
               \A p \in AssetSources(files) :
                 /\ PathJoin(outputDir, p) \in DOMAIN files
                 /\ files[PathJoin(outputDir, p)] = files[p]
          /\ "index.html" \notin DOMAIN files =>
               /\ Ended(FullLog[9])
               /\ \/ DistIndexHtml \notin DOMAIN files
                  \/ files[DistIndexHtml] = StaleOutput[DistIndexHtml])

\* a run without index.html over the output of an earlier build has
\* aborted: the stylesheet is the new one, the page the stale one
C23_Witness ==
  /\ pc = "failed"
  /\ "index.html" \notin DOMAIN files
  /\ {DistIndexHtml, StylesMinCss} \subseteq DOMAIN files
  /\ files[DistIndexHtml] = "stale dist/index.html"
  /\ files[StylesMinCss] = minifyCSSContent(combined.css)
  /\ files[StylesMinCss] # StaleOutput[StylesMinCss]
  /\ {ScriptsMinJs, CriticalMinCss, "dist/assets/logo.png"} \subseteq DOMAIN files

(***************************************************************************)
(* js/site-map.js: class SiteMapModal.  Zoom factors are counted in        *)
(* hundredths (100 is the factor 1): minZoom, maxZoom and zoomStep are     *)
(* multiples of 0.25, which binary floating point holds exactly, so sums   *)
(* and comparisons of them are those of the integers.                      *)
(***************************************************************************)

\* this.minZoom = 0.5
minZoom == 50

\* this.maxZoom = 3
maxZoom == 300

\* this.zoomStep = 0.25
zoomStep == 25

Min(a, b) == IF a < b THEN a ELSE b

Max(a, b) == IF a > b THEN a ELSE b

\* how many focus timers of openModal are pending at a time, at most
MaxFocusTimers == 1

\* the ratio of the distance of two fingers to their first distance, in
\* hundredths
PinchScales == {50, 200}

\* how many times the fingers set the zoom, at most
MaxPinches == 1

\* applyZoom: the transform, the class of the container, the two buttons
applyZoom(m) ==
  [m EXCEPT !.transform = m.currentZoom,
            !.zoomed = m.currentZoom > 100,
            !.zoomInDisabled = m.currentZoom >= maxZoom,
            !.zoomOutDisabled = m.currentZoom <= minZoom]

zoomIn(m) ==
  IF m.currentZoom < maxZoom
  THEN applyZoom([m EXCEPT !.currentZoom = Min(m.currentZoom + zoomStep, maxZoom)])
  ELSE m

zoomOut(m) ==
  IF m.currentZoom > minZoom
  THEN applyZoom([m EXCEPT !.currentZoom = Max(m.currentZoom - zoomStep, minZoom)])
  ELSE m

resetZoom(m) ==
  [applyZoom([m EXCEPT !.currentZoom = 100]) EXCEPT !.scrolled = FALSE]

\* a handleWheel that adds the step without clamping the sum
handleWheelUnclamped(m, deltaY) ==
  LET delta == IF deltaY > 0 THEN 0 - zoomStep ELSE zoomStep
  IN  applyZoom([m EXCEPT !.currentZoom = m.currentZoom + delta])

handleWheel(m, deltaY) ==
  LET delta   == IF deltaY > 0 THEN 0 - zoomStep ELSE zoomStep
      newZoom == Max(minZoom, Min(maxZoom, m.currentZoom + delta))
  IN  IF newZoom # m.currentZoom
      THEN applyZoom([m EXCEPT !.currentZoom = newZoom])
      ELSE m

openModal(m) ==
  resetZoom([m EXCEPT !.active = TRUE, !.ariaHidden = "false",
                      !.overflow = "hidden", !.focusTimers = @ + 1])

closeModal(m) ==
  [m EXCEPT !.active = FALSE, !.ariaHidden = "true", !.overflow = "",
            !.focus = "site-map-image"]

\* the keydown listener of the document
keydown(m, key) ==
  IF ~m.active THEN m
  ELSE IF key = "Escape" THEN closeModal(m)
  ELSE IF key \in {"+", "="} THEN zoomIn(m)
  ELSE IF key = "-" THEN zoomOut(m)
  ELSE IF key = "0" THEN resetZoom(m)
  ELSE IF key \in {"ArrowRight", "ArrowDown"} THEN [m EXCEPT !.scrolled = TRUE]
  ELSE m

startPan(m) ==
  IF m.currentZoom <= 100 THEN m
  ELSE [m EXCEPT !.isPanning = TRUE, !.cursor = "grabbing"]

handlePan(m) == IF ~m.isPanning THEN m ELSE [m EXCEPT !.scrolled = TRUE]

endPan(m) ==
  [m EXCEPT !.isPanning = FALSE,
            !.cursor = IF m.currentZoom > 100 THEN "grab" ELSE "default"]

\* handleTouchStart with n fingers on the container
handleTouchStart(m, n) ==
  IF n = 2
  THEN [m EXCEPT !.touches = n, !.pinching = TRUE, !.initialZoom = m.currentZoom]
  ELSE IF n = 1 /\ m.currentZoom > 100
  THEN [m EXCEPT !.touches = n, !.isPanning = TRUE]
  ELSE [m EXCEPT !.touches = n]

\* handleTouchMove with the fingers that are down; with two of them the
\* fingers are scale hundredths as far apart as when the pinch began
handleTouchMove(m, scale) ==
  IF m.touches = 2
  THEN LET newZoom == Max(minZoom, Min(maxZoom, (m.initialZoom * scale) \div 100))
       IN  IF newZoom # m.currentZoom
           THEN applyZoom([m EXCEPT !.currentZoom = newZoom, !.pinches = @ + 1])
           ELSE m
  ELSE IF m.touches = 1 /\ m.isPanning THEN [m EXCEPT !.scrolled = TRUE]
  ELSE m

\* handleTouchEnd with n fingers left on the container
handleTouchEnd(m, n) ==
  LET a == IF n < 2
           THEN [m EXCEPT !.touches = n, !.pinching = FALSE,
                          !.initialZoom = m.currentZoom]
           ELSE [m EXCEPT !.touches = n]
  IN  IF n = 0 THEN [a EXCEPT !.isPanning = FALSE] ELSE a

ExceptSiteMap == <<build, navigation, darkMode, contactForm, fontLoader>>

\* a click on the site map image, or Enter or space on it
OpenModal ==
  /\ siteMap.focusTimers < MaxFocusTimers
  /\ siteMap' = openModal(siteMap)
  /\ UNCHANGED ExceptSiteMap

\* a click on the close button or on the overlay
CloseModal ==
  /\ siteMap.active
  /\ siteMap' = closeModal(siteMap)
  /\ UNCHANGED ExceptSiteMap

\* the timer of openModal: this.closeBtn.focus()
FocusCloseButton ==
  /\ siteMap.focusTimers > 0
  /\ siteMap' = [siteMap EXCEPT !.focusTimers = @ - 1, !.focus = "close-modal"]
  /\ UNCHANGED ExceptSiteMap

\* clicks on the zoom buttons: a disabled button fires no click
ClickZoomIn ==
  /\ siteMap.active /\ ~siteMap.zoomInDisabled
  /\ siteMap' = zoomIn(siteMap)
  /\ UNCHANGED ExceptSiteMap

ClickZoomOut ==
  /\ siteMap.active /\ ~siteMap.zoomOutDisabled
  /\ siteMap' = zoomOut(siteMap)
  /\ UNCHANGED ExceptSiteMap

ClickZoomReset ==
  /\ siteMap.active
  /\ siteMap' = resetZoom(siteMap)
  /\ UNCHANGED ExceptSiteMap

Wheel ==
  /\ siteMap.active
  /\ \E deltaY \in {-1, 0, 1} : siteMap' = handleWheel(siteMap, deltaY)
  /\ UNCHANGED ExceptSiteMap

KeyDown ==
  /\ \E key \in {"Escape", "+", "=", "-", "0", "ArrowLeft", "ArrowRight", "ArrowDown", "a"} :
       siteMap' = keydown(siteMap, key)
  /\ UNCHANGED ExceptSiteMap

MouseDown ==
  /\ siteMap.active
  /\ siteMap' = startPan(siteMap)
  /\ UNCHANGED ExceptSiteMap

MouseMove ==
  /\ siteMap.active
  /\ siteMap' = handlePan(siteMap)
  /\ UNCHANGED ExceptSiteMap

\* mouseup and mouseleave
MouseUp ==
  /\ siteMap.active
  /\ siteMap' = endPan(siteMap)
  /\ UNCHANGED ExceptSiteMap

\* one more finger on the container
TouchStart ==
  /\ siteMap.active
  /\ siteMap.touches < 2
  /\ siteMap' = handleTouchStart(siteMap, siteMap.touches + 1)
  /\ UNCHANGED ExceptSiteMap

TouchMove ==
  /\ siteMap.active
  /\ siteMap.touches > 0
  /\ siteMap.touches = 2 => siteMap.pinches < MaxPinches
  /\ \E scale \in PinchScales : siteMap' = handleTouchMove(siteMap, scale)
  /\ UNCHANGED ExceptSiteMap

\* one finger less on the container
TouchEnd ==
  /\ siteMap.touches > 0
  /\ siteMap' = handleTouchEnd(siteMap, siteMap.touches - 1)
  /\ UNCHANGED ExceptSiteMap

NextSiteMap ==
  \/ OpenModal
  \/ CloseModal
  \/ FocusCloseButton
  \/ ClickZoomIn
  \/ ClickZoomOut
  \/ ClickZoomReset
  \/ Wheel
  \/ KeyDown
  \/ MouseDown
  \/ MouseMove
  \/ MouseUp
  \/ TouchStart
  \/ TouchMove
  \/ TouchEnd

\* no build is running: the state of the build script while a page is open
BuildIdle ==
  /\ files = NoFiles
  /\ dirs = {}
  /\ pc = "idle"
  /\ runsLeft = 0
  /\ combined = [css |-> "", js |-> ""]
  /\ console = <<>>
  /\ exitCode = -1
  /\ previous = <<>>

\* new SiteMapModal() on DOMContentLoaded.  The constructor sets the fields;
\* the two buttons and the container are as the markup of the page has
\* them, which is not part of the scripts: any of the three may be set.
InitSiteMap ==
  /\ BuildIdle
  /\ navigation = NotLoaded
  /\ darkMode = NotLoaded
  /\ contactForm = NotLoaded
  /\ fontLoader = NotLoaded
  /\ \E zoomedClass \in BOOLEAN, inDisabled \in BOOLEAN, outDisabled \in BOOLEAN :
       siteMap = [loaded |-> TRUE, currentZoom |-> 100, transform |-> 0,
                  zoomed |-> zoomedClass, zoomInDisabled |-> inDisabled,
                  zoomOutDisabled |-> outDisabled,
                  active |-> FALSE, ariaHidden |-> "true", overflow |-> "",
                  focus |-> "body", focusTimers |-> 0,
                  isPanning |-> FALSE, cursor |-> "", scrolled |-> FALSE,
                  touches |-> 0, pinching |-> FALSE, initialZoom |-> 100,
                  pinches |-> 0]

SpecSiteMap == InitSiteMap /\ [][NextSiteMap]_vars

\* the zoom operations have run at least once (every one of them applies
\* the zoom), and the fingers have not set the zoom
ZoomedByButtonsOnly == siteMap.transform # 0 /\ siteMap.pinches = 0

\* C30: after any sequence of zoomIn, zoomOut, resetZoom, wheel and openModal
\* operations (with pans, key presses, closing and focus changes between
\* them), currentZoom is between 0.5 and 3 and a multiple of 0.25, the
\* zoom-in button is disabled exactly when currentZoom is 3, the zoom-out
\* button exactly when it is 0.5, and the container has the class zoomed
\* exactly when currentZoom is above 1.
C30_ZoomInRangeAndButtons ==
  ZoomedByButtonsOnly =>
    /\ siteMap.currentZoom >= 50 /\ siteMap.currentZoom <= 300
    /\ siteMap.currentZoom % 25 = 0
    /\ siteMap.zoomInDisabled <=> siteMap.currentZoom = 300
    /\ siteMap.zoomOutDisabled <=> siteMap.currentZoom = 50
    /\ siteMap.zoomed <=> siteMap.currentZoom > 100
    /\ siteMap.transform = siteMap.currentZoom

\* the zoom has reached its maximum by the buttons or the wheel
C30_Witness ==
  /\ ZoomedByButtonsOnly
  /\ siteMap.currentZoom = 300
  /\ siteMap.zoomInDisabled /\ ~siteMap.zoomOutDisabled /\ siteMap.zoomed

\* the zoom has reached its minimum by the buttons or the wheel
C30_WitnessMin ==
  /\ ZoomedByButtonsOnly
  /\ siteMap.currentZoom = 50
  /\ siteMap.zoomOutDisabled /\ ~siteMap.zoomInDisabled /\ ~siteMap.zoomed

\* ---------------------------------------------------------------------------
\* DarkModeToggle (js/dark-mode.js).  darkMode holds the body class, the
\* attributes of the toggle button, the entry of localStorage under
\* storageKey ("null" when there is none) and what matchMedia reports.
\* chosen is the mode most recently passed to toggleDarkMode or setDarkMode
\* ("none" after resetToSystemPreference), last the most recent operation,
\* ignored whether the system scheme has changed since the mode was chosen.

MaxAnnouncements == 2

Stored(enabled) == IF enabled THEN "true" ELSE "false"

enableDarkMode(d) ==
  [d EXCEPT !.dark = TRUE,
            !.ariaChecked = IF d.hasButton THEN "true" ELSE @,
            !.ariaLabel = IF d.hasButton THEN "Switch to light mode" ELSE @]

disableDarkMode(d) ==
  [d EXCEPT !.dark = FALSE,
            !.ariaChecked = IF d.hasButton THEN "false" ELSE @,
            !.ariaLabel = IF d.hasButton THEN "Switch to dark mode" ELSE @]

createToggleButton(d, found) ==
  [d EXCEPT !.hasButton = found,
            !.ariaChecked = IF found THEN "false" ELSE @]

loadUserPreference(d) ==
  LET shouldEnableDarkMode == IF d.stored # "null" THEN d.stored = "true"
                              ELSE d.system
  IN IF shouldEnableDarkMode THEN enableDarkMode(d) ELSE disableDarkMode(d)

updateToggleIcon(d) ==
  IF d.hasButton
  THEN [d EXCEPT !.ariaLabel = IF d.dark THEN "Switch to light mode"
                               ELSE "Switch to dark mode"]
  ELSE d

init(d, found) ==
  updateToggleIcon(loadUserPreference(createToggleButton(d, found)))

announceChange(d) == [d EXCEPT !.announcements = @ + 1]

toggleDarkMode(d) ==
  LET isDarkMode == d.dark
      switched == IF isDarkMode THEN disableDarkMode(d) ELSE enableDarkMode(d)
  IN announceChange([switched EXCEPT !.stored = Stored(~isDarkMode)])

setDarkMode(d, enabled) ==
  [(IF enabled THEN enableDarkMode(d) ELSE disableDarkMode(d))
     EXCEPT !.stored = Stored(enabled)]

resetToSystemPreference(d) ==
  LET removed == [d EXCEPT !.stored = "null"]
  IN IF removed.system THEN enableDarkMode(removed)
     ELSE disableDarkMode(removed)

systemChangeAlways(d, matches) ==
  LET changed == [d EXCEPT !.system = matches]
  IN IF matches THEN enableDarkMode(changed) ELSE disableDarkMode(changed)

\* the change listener of prefersDarkScheme
systemChange(d, matches) ==
  LET changed == [d EXCEPT !.system = matches]
  IN IF changed.stored = "null"
     THEN IF matches THEN enableDarkMode(changed) ELSE disableDarkMode(changed)
     ELSE changed

testDarkMode(d) == [d EXCEPT !.dark = ~@]

ExceptDarkMode == <<build, navigation, contactForm, fontLoader, siteMap>>

\* the document of a page that is not open: no class, no button
Closed(d) ==
  [d EXCEPT !.loaded = FALSE, !.dark = FALSE, !.hasButton = FALSE,
            !.ariaChecked = "", !.ariaLabel = "", !.announcements = 0]

\* the page is opened: DOMContentLoaded runs init(); the markup may or may
\* not hold a .dark-mode-toggle button
LoadPage ==
  /\ ~darkMode.loaded
  /\ \E found \in BOOLEAN :
       darkMode' = [init([darkMode EXCEPT !.loaded = TRUE], found)
                      EXCEPT !.last = "load"]
  /\ UNCHANGED ExceptDarkMode

\* the page is left; localStorage and the system scheme stay
LeavePage ==
  /\ darkMode.loaded
  /\ darkMode' = [Closed(darkMode) EXCEPT !.last = "leave"]
  /\ UNCHANGED ExceptDarkMode

ClickToggle ==
  /\ darkMode.loaded /\ darkMode.hasButton
  /\ darkMode.announcements < MaxAnnouncements
  /\ darkMode' = [toggleDarkMode(darkMode)
                    EXCEPT !.last = "toggle", !.chosen = Stored(~darkMode.dark),
                           !.ignored = FALSE]
  /\ UNCHANGED ExceptDarkMode

KeyDownToggle ==
  /\ darkMode.loaded /\ darkMode.hasButton
  /\ darkMode.announcements < MaxAnnouncements
  /\ \E key \in {"Enter", " ", "Tab"} :
       darkMode' = IF key \in {"Enter", " "}
                   THEN [toggleDarkMode(darkMode)
                           EXCEPT !.last = "toggle",
                                  !.chosen = Stored(~darkMode.dark),
                                  !.ignored = FALSE]
                   ELSE [darkMode EXCEPT !.last = "key"]
  /\ UNCHANGED ExceptDarkMode

\* the timer of announceChange removes the announcement
RemoveAnnouncement ==
  /\ darkMode.loaded
  /\ darkMode.announcements > 0
  /\ darkMode' = [darkMode EXCEPT !.announcements = @ - 1, !.last = "timer"]
  /\ UNCHANGED ExceptDarkMode

SetDarkMode ==
  /\ darkMode.loaded
  /\ \E enabled \in BOOLEAN :
       darkMode' = [setDarkMode(darkMode, enabled)
                      EXCEPT !.last = "set", !.chosen = Stored(enabled),
                             !.ignored = FALSE]
  /\ UNCHANGED ExceptDarkMode

ResetToSystemPreference ==
  /\ darkMode.loaded
  /\ darkMode' = [resetToSystemPreference(darkMode)
                    EXCEPT !.last = "reset", !.chosen = "none",
                           !.ignored = FALSE]
  /\ UNCHANGED ExceptDarkMode

\* the system colour scheme changes; the listener runs when a page is open
SystemSchemeChange ==
  /\ darkMode' = [(IF darkMode.loaded
                   THEN systemChange(darkMode, ~darkMode.system)
                   ELSE [darkMode EXCEPT !.system = ~@])
                    EXCEPT !.last = "change",
                           !.ignored = @ \/ darkMode.stored # "null"]
  /\ UNCHANGED ExceptDarkMode

\* window.testDarkMode()
TestDarkMode ==
  /\ darkMode.loaded
  /\ darkMode' = [testDarkMode(darkMode) EXCEPT !.last = "test"]
  /\ UNCHANGED ExceptDarkMode

NextDarkMode ==
  \/ LoadPage
  \/ LeavePage
  \/ ClickToggle
  \/ KeyDownToggle
  \/ RemoveAnnouncement
  \/ SetDarkMode
  \/ ResetToSystemPreference
  \/ SystemSchemeChange
  \/ TestDarkMode

\* before the page is opened: localStorage holds what an earlier visit left
InitDarkMode ==
  /\ BuildIdle
  /\ navigation = NotLoaded
  /\ contactForm = NotLoaded
  /\ fontLoader = NotLoaded
  /\ siteMap = NotLoaded
  /\ \E saved \in {"null", "true", "false"}, matches \in BOOLEAN :
       darkMode = [loaded |-> FALSE, dark |-> FALSE, hasButton |-> FALSE,
                   ariaChecked |-> "", ariaLabel |-> "", announcements |-> 0,
                   stored |-> saved, system |-> matches,
                   chosen |-> IF saved = "null" THEN "none" ELSE saved,
                   last |-> "none", ignored |-> FALSE]

SpecDarkMode == InitDarkMode /\ [][NextDarkMode]_vars

\* C25: once a dark-mode preference is stored (by toggleDarkMode or
\* setDarkMode) it is the mode last chosen, a change of the system colour
\* scheme leaves the displayed mode alone, and loadUserPreference on the next
\* page load displays the mode last chosen; while no preference is stored
\* (at first or after resetToSystemPreference) the change of the system
\* scheme and the page load display the system scheme.
C25_StoredPreferenceWins ==
  /\ [](darkMode.stored # "null" => darkMode.stored = darkMode.chosen)
  /\ [](darkMode.stored = "null" => darkMode.chosen = "none")
  /\ [][darkMode'.last = "change" /\ darkMode.stored # "null"
          => darkMode'.dark = darkMode.dark /\ darkMode'.stored = darkMode.stored]_vars
  /\ [][darkMode'.last = "load" /\ darkMode.stored # "null"
          => Stored(darkMode'.dark) = darkMode.chosen]_vars
  /\ [][darkMode'.last \in {"change", "load"} /\ darkMode.stored = "null"
          /\ darkMode'.loaded
          => darkMode'.dark = darkMode'.system]_vars
  /\ [][darkMode'.last \in {"toggle", "set"}
          => darkMode'.stored = Stored(darkMode'.dark)]_vars

\* a page load has restored the chosen mode against the system scheme, which
\* changed after the mode was chosen
C25_Witness ==
  /\ darkMode.loaded
  /\ darkMode.last = "load"
  /\ darkMode.stored = "true"
  /\ darkMode.ignored
  /\ darkMode.dark
  /\ ~darkMode.system

\* ---------------------------------------------------------------------------
\* FontLoader (js/font-loader.js).  fontLoader holds the classes of the root
\* element, the 3000 ms timer ("pending", "cleared" or "fired"), the promise
\* of font.load() ("pending" or "settled"; "none" on the fallback path), the
\* hidden element and the polling timer of the fallback path, and how often
\* each of the three handlers has run.  uncaught counts the exceptions that
\* leave a timer callback.

maxChecks == 50

onFontLoaded(f) ==
  [f EXCEPT !.loading = FALSE, !.fontLoaded = TRUE, !.nLoaded = @ + 1]

onFontTimeout(f) ==
  [f EXCEPT !.loading = FALSE, !.fontTimeout = TRUE, !.nTimeout = @ + 1]

onFontError(f) ==
  [f EXCEPT !.loading = FALSE, !.fontError = TRUE, !.nError = @ + 1]

clearTimeout(f) ==
  [f EXCEPT !.timeout = IF @ = "pending" THEN "cleared" ELSE @]

loadFontWithAPI(f) ==
  [f EXCEPT !.timeout = "pending", !.promise = "pending"]

loadFontWithFallback(f) ==
  [f EXCEPT !.element = TRUE, !.timeout = "pending", !.poll = TRUE,
            !.checkCount = 0]

loadFont(f) ==
  IF f.api THEN loadFontWithAPI(f) ELSE loadFontWithFallback(f)

\* init(); cached is what isFontCached() finds
FontLoaderInit(f, cached) ==
  LET adding == [f EXCEPT !.loading = TRUE]
  IN IF cached THEN onFontLoaded(adding) ELSE loadFont(adding)

\* document.body.removeChild(fontLoader) followed by the rest of the
\* callback: removing an element that is no longer a child throws, and the
\* rest does not run
RemoveChildThen(f, rest) ==
  IF f.element THEN rest ELSE [f EXCEPT !.uncaught = TRUE]

\* the callback of the 3000 ms timer
timeoutCallback(f) ==
  LET fired == [f EXCEPT !.timeout = "fired"]
  IN IF f.api
     THEN onFontTimeout(fired)
     ELSE RemoveChildThen(fired, onFontTimeout([fired EXCEPT !.element = FALSE]))

\* font.load().then(...)
loadThen(f) ==
  onFontLoaded(clearTimeout([f EXCEPT !.promise = "settled"]))

\* font.load().catch(...)
loadCatch(f) ==
  onFontError(clearTimeout([f EXCEPT !.promise = "settled"]))

\* checkFont, the callback of the polling timers
checkFont(f, cached) ==
  LET counted == [f EXCEPT !.checkCount = @ + 1, !.poll = FALSE]
      cleared == clearTimeout(counted)
  IN IF cached
     THEN RemoveChildThen(cleared, onFontLoaded([cleared EXCEPT !.element = FALSE]))
     ELSE IF counted.checkCount < maxChecks
          THEN [counted EXCEPT !.poll = TRUE]
          ELSE RemoveChildThen(cleared,
                               onFontTimeout([cleared EXCEPT !.element = FALSE]))

ExceptFontLoader == <<build, navigation, darkMode, contactForm, siteMap>>

\* the 3000 ms timer fires
TimeoutFires ==
  /\ fontLoader.timeout = "pending"
  /\ fontLoader' = timeoutCallback(fontLoader)
  /\ UNCHANGED ExceptFontLoader

\* font.load() is fulfilled
LoadResolves ==
  /\ fontLoader.promise = "pending"
  /\ fontLoader' = loadThen(fontLoader)
  /\ UNCHANGED ExceptFontLoader

\* font.load() is rejected
LoadRejects ==
  /\ fontLoader.promise = "pending"
  /\ fontLoader' = loadCatch(fontLoader)
  /\ UNCHANGED ExceptFontLoader

\* a polling timer fires
CheckFont ==
  /\ fontLoader.poll
  /\ \E cached \in BOOLEAN : fontLoader' = checkFont(fontLoader, cached)
  /\ UNCHANGED ExceptFontLoader

NextFontLoader ==
  \/ TimeoutFires
  \/ LoadResolves
  \/ LoadRejects
  \/ CheckFont

\* new FontLoader(): the constructor runs init()
InitFontLoader ==
  /\ BuildIdle
  /\ navigation = NotLoaded
  /\ darkMode = NotLoaded
  /\ contactForm = NotLoaded
  /\ siteMap = NotLoaded
  /\ \E fonts \in BOOLEAN, cached \in BOOLEAN :
       fontLoader =
         FontLoaderInit([loaded |-> TRUE, api |-> fonts, loading |-> FALSE,
                         fontLoaded |-> FALSE, fontTimeout |-> FALSE,
                         fontError |-> FALSE, timeout |-> "none",
                         promise |-> "none", element |-> FALSE,
                         poll |-> FALSE, checkCount |-> 0, uncaught |-> FALSE,
                         nLoaded |-> 0, nTimeout |-> 0, nError |-> 0],
                        cached)

SpecFontLoader == InitFontLoader /\ [][NextFontLoader]_vars

HandlersRun == fontLoader.nLoaded + fontLoader.nTimeout + fontLoader.nError

OutcomeClasses ==
  {c \in {"font-loaded", "font-timeout", "font-error"} :
     \/ c = "font-loaded" /\ fontLoader.fontLoaded
     \/ c = "font-timeout" /\ fontLoader.fontTimeout
     \/ c = "font-error" /\ fontLoader.fontError}

\* C27: at most one of onFontLoaded, onFontTimeout and onFontError runs for a
\* FontLoader, whatever the order of the 3000 ms timer, the settlement of
\* font.load() and the polling timers, and once one has run the root element
\* is without the class font-loading and carries exactly one of font-loaded,
\* font-timeout and font-error.
C27_ExactlyOneHandler ==
  /\ HandlersRun <= 1
  /\ HandlersRun = 1 =>
       ~fontLoader.loading /\ Cardinality(OutcomeClasses) = 1

\* C27 on the polling path of loadFontWithFallback
C27_ExactlyOneHandlerPolling ==
  ~fontLoader.api => C27_ExactlyOneHandler

\* the 3000 ms timer has fired on the polling path and a later check has
\* found the font
C27_WitnessPolling ==
  /\ ~fontLoader.api
  /\ fontLoader.timeout = "fired"
  /\ fontLoader.uncaught
  /\ HandlersRun = 1

\* ---------------------------------------------------------------------------
\* Navigation (js/navigation.js).  The class defines openMobileMenu,
\* closeMobileMenu and handleKeyboardNavigation twice; the later definitions
\* (lines 290-366) are the methods of the instance.  The elements of the
\* page are "toggle" (the .mobile-menu-toggle button), "link1" and "link2"
\* (the first and the last .mobile-nav-link of .mobile-nav), "navLink" (a
\* .nav-link outside the mobile nav), "other" (any other focusable element)
\* and "body".  openedFrom is document.activeElement at the time the menu
\* went from closed to open.

MaxMenuFocusTimers == 1

MobileNavLinks == {"link1", "link2"}

Focusable == {"toggle", "link1", "link2", "navLink", "other"}

RECURSIVE focus(_, _)
RECURSIVE handleFocusIn(_, _)
RECURSIVE closeMobileMenu(_)

\* el.focus(): the body cannot take the focus; a focusin event is
\* dispatched when the focus moves
focus(n, el) ==
  IF el = "body" \/ n.activeElement = el THEN n
  ELSE handleFocusIn([n EXCEPT !.activeElement = el], el)

handleFocusIn(n, target) ==
  LET stored == [n EXCEPT !.lastFocusedElement = target]
  IN IF stored.isMenuOpen /\ target \notin MobileNavLinks /\ target # "toggle"
     THEN closeMobileMenu(stored)
     ELSE stored

\* the first definition of openMobileMenu (lines 108-126), which the second
\* replaces
openMobileMenuFirst(n) ==
  [n EXCEPT !.isMenuOpen = TRUE,
            !.ariaExpanded = "true",
            !.ariaHidden = "false",
            !.overlayActive = TRUE,
            !.overflow = "hidden",
            !.focusTimers = @ + 1,
            !.openedFrom = IF n.isMenuOpen THEN @ ELSE n.activeElement,
            !.operated = TRUE]

openMobileMenu(n) ==
  [n EXCEPT !.isMenuOpen = TRUE,
            !.lastFocusedElement = n.activeElement,
            !.ariaExpanded = "true",
            !.ariaHidden = "false",
            !.overlayActive = TRUE,
            !.modalOpen = TRUE,
            !.overflow = "hidden",
            !.trapped = TRUE,
            !.focusTimers = @ + 1,
            !.openedFrom = IF n.isMenuOpen THEN @ ELSE n.activeElement,
            !.operated = TRUE]

closeMobileMenu(n) ==
  LET closed == [n EXCEPT !.isMenuOpen = FALSE,
                          !.ariaExpanded = "false",
                          !.ariaHidden = "true",
                          !.overlayActive = FALSE,
                          !.modalOpen = FALSE,
                          !.overflow = "",
                          !.operated = TRUE]
  IN IF closed.lastFocusedElement # "null"
     THEN focus(closed, closed.lastFocusedElement)
     ELSE focus(closed, "toggle")

toggleMobileMenu(n) ==
  IF n.isMenuOpen THEN closeMobileMenu(n) ELSE openMobileMenu(n)

\* handleTabNavigation, and the keydown listener that trapFocus puts on the
\* mobile nav: the focus wraps around at the first and the last link
handleTabNavigation(n, shift) ==
  IF shift /\ n.activeElement = "link1" THEN focus(n, "link2")
  ELSE IF ~shift /\ n.activeElement = "link2" THEN focus(n, "link1")
  ELSE n

\* click listener of the toggle
toggleClick(n) == toggleMobileMenu(n)

\* handleActivation: the space key clicks a button
handleActivation(n, key, target) ==
  IF key = " " /\ target = "toggle" THEN toggleClick(n) ELSE n

handleKeyboardNavigation(n, key, shift, target) ==
  IF key = "Escape" /\ n.isMenuOpen THEN closeMobileMenu(n)
  ELSE LET tabbed == IF key = "Tab" /\ n.isMenuOpen
                     THEN handleTabNavigation(n, shift) ELSE n
       IN IF key \in {"Enter", " "}
          THEN handleActivation(tabbed, key, target)
          ELSE tabbed

\* click listener of a .nav-link or .mobile-nav-link
linkClick(n) == IF n.isMenuOpen THEN closeMobileMenu(n) ELSE n

\* the keydown listeners of the target itself: the toggle's and a link's
targetKeyDown(n, key, target) ==
  IF target = "toggle" /\ key \in {"Enter", " "} THEN toggleMobileMenu(n)
  ELSE IF target \in MobileNavLinks \cup {"navLink"} /\ key = "Enter"
            /\ n.isMenuOpen
       THEN closeMobileMenu(n)
       ELSE n

\* the keydown listener of trapFocus, on the way from a link to the document
trapKeyDown(n, key, shift, target) ==
  IF n.trapped /\ target \in MobileNavLinks /\ key = "Tab"
  THEN handleTabNavigation(n, shift) ELSE n

\* setupKeyboardDetection
keyboardDetection(n, key) ==
  IF key = "Tab" THEN [n EXCEPT !.keyboardNavigation = TRUE] ELSE n

mouseDown(n) == [n EXCEPT !.keyboardNavigation = FALSE]

\* a keydown event on target runs the listeners of the target, of the mobile
\* nav and of the document in this order
keyDownListeners(n, key, shift, target) ==
  keyboardDetection(
    handleKeyboardNavigation(
      trapKeyDown(targetKeyDown(n, key, target), key, shift, target),
      key, shift, target),
    key)

ExceptNavigation == <<build, darkMode, contactForm, fontLoader, siteMap>>

Bounded(n) ==
  /\ n.focusTimers <= MaxMenuFocusTimers
  /\ navigation' = n
  /\ UNCHANGED ExceptNavigation

\* the toggle is clicked: mousedown, the focus moves to the button (not in
\* every browser), click
ClickMenuToggle ==
  /\ navigation.loaded
  /\ \E focused \in BOOLEAN :
       LET down == mouseDown(navigation)
           on == IF focused THEN focus(down, "toggle") ELSE down
       IN Bounded(toggleClick(on))

\* a key is pressed on the focused element; when no listener has moved the
\* focus, Tab moves it to the next element and Enter clicks a link
KeyDownNavigation ==
  /\ navigation.loaded
  /\ \E key \in {"Escape", "Tab", "Enter", " "}, shift \in BOOLEAN,
        next \in Focusable :
       LET target == navigation.activeElement
           heard == keyDownListeners(navigation, key, shift, target)
           moved == heard.activeElement # target
       IN Bounded(IF key = "Tab" /\ ~moved THEN focus(heard, next)
                  ELSE IF key = "Enter" /\ target \in MobileNavLinks \cup {"navLink"}
                       THEN linkClick(heard)
                       ELSE heard)

\* the timer of openMobileMenu focuses the first menu item
FocusFirstMenuItem ==
  /\ navigation.loaded
  /\ navigation.focusTimers > 0
  /\ Bounded(focus([navigation EXCEPT !.focusTimers = @ - 1], "link1"))

\* the window is resized across or within the 768 px boundary
Resize ==
  /\ navigation.loaded
  /\ \E wide \in BOOLEAN :
       LET resized == [navigation EXCEPT !.wide = wide]
       IN Bounded(IF wide /\ resized.isMenuOpen THEN closeMobileMenu(resized)
                  ELSE resized)

\* a navigation link is clicked: mousedown, focus, click
ClickNavLink ==
  /\ navigation.loaded
  /\ \E link \in MobileNavLinks \cup {"navLink"} :
       Bounded(linkClick(focus(mouseDown(navigation), link)))

\* the overlay is clicked: mousedown takes the focus away from the focused
\* element, click
ClickOverlay ==
  /\ navigation.loaded
  /\ navigation.overlayActive
  /\ Bounded(closeMobileMenu([mouseDown(navigation) EXCEPT !.activeElement = "body"]))

\* the focus moves to another element (a click, a script)
FocusMoves ==
  /\ navigation.loaded
  /\ \E el \in Focusable : Bounded(focus(navigation, el))

\* window.navigation.openMobileMenu()
OpenMobileMenu ==
  /\ navigation.loaded
  /\ Bounded(openMobileMenu(navigation))

\* window.navigation.closeMobileMenu()
CloseMobileMenu ==
  /\ navigation.loaded
  /\ Bounded(closeMobileMenu(navigation))

NextNavigation ==
  \/ ClickMenuToggle
  \/ KeyDownNavigation
  \/ FocusFirstMenuItem
  \/ Resize
  \/ ClickNavLink
  \/ ClickOverlay
  \/ FocusMoves
  \/ OpenMobileMenu
  \/ CloseMobileMenu

\* new Navigation() on DOMContentLoaded.  The attributes of the toggle and of
\* the mobile nav, the body and the window are as the page has them
InitNavigation ==
  /\ BuildIdle
  /\ darkMode = NotLoaded
  /\ contactForm = NotLoaded
  /\ fontLoader = NotLoaded
  /\ siteMap = NotLoaded
  /\ \E expanded \in {"", "false"}, hidden \in {"", "true"}, wide \in BOOLEAN :
       navigation = [loaded |-> TRUE, isMenuOpen |-> FALSE,
                     keyboardNavigation |-> FALSE,
                     lastFocusedElement |-> "null",
                     ariaExpanded |-> expanded, ariaHidden |-> hidden,
                     overlayActive |-> FALSE, modalOpen |-> FALSE,
                     overflow |-> "", trapped |-> FALSE,
                     activeElement |-> "body", focusTimers |-> 0,
                     wide |-> wide, openedFrom |-> "null",
                     operated |-> FALSE]

SpecNavigation == InitNavigation /\ [][NextNavigation]_vars

\* C24: whenever a step closes the open mobile menu, the focus is afterwards
\* on the element that had it when the menu was opened.
C24_FocusReturnsToOpener ==
  [][navigation.isMenuOpen /\ ~navigation'.isMenuOpen
       => navigation'.activeElement = navigation.openedFrom]_vars

MenuShownOpen ==
  /\ navigation.ariaExpanded = "true"
  /\ navigation.ariaHidden = "false"
  /\ navigation.overlayActive
  /\ navigation.modalOpen
  /\ navigation.overflow = "hidden"

MenuShownClosed ==
  /\ navigation.ariaExpanded = "false"
  /\ navigation.ariaHidden = "true"
  /\ ~navigation.overlayActive
  /\ ~navigation.modalOpen
  /\ navigation.overflow = ""

C29_WitnessClosed ==
  /\ navigation.operated
  /\ ~navigation.isMenuOpen
  /\ MenuShownClosed
  /\ navigation.trapped

\* ---------------------------------------------------------------------------
\* ContactForm (js/contact-form.js).  contactForm holds the values of the
\* three inputs and the class validateField gave each, the submit button
\* (disabled, class loading, text), the status element (text, type, the
\* retry button and the fallback block appended to it), navigator.onLine, the
\* requests that fetch has sent and that have not been handled (each with
\* the FormData it carries and whether the response body is being read), and
\* the pending timers of showStatus.  last is the most recent event.

MaxRequests == 2
MaxStatusTimers == 1

Fields == {"name", "email", "message"}

validationRules ==
  [name |-> [required |-> TRUE, minLength |-> 2, maxLength |-> 50,
             pattern |-> "name"],
   email |-> [required |-> TRUE, minLength |-> 0, maxLength |-> 0,
              pattern |-> "email"],
   message |-> [required |-> TRUE, minLength |-> 10, maxLength |-> 1000,
                pattern |-> ""]]

Letter ==
  {"a", "b", "c", "d", "e", "f", "g", "h", "i", "j", "k", "l", "m", "n", "o",
   "p", "q", "r", "s", "t", "u", "v", "w", "x", "y", "z", "A", "B", "C", "D",
   "E", "F", "G", "H", "I", "J", "K", "L", "M", "N", "O", "P", "Q", "R", "S",
   "T", "U", "V", "W", "X", "Y", "Z"}

\* /^[a-zA-Z\s'-]+$/
NamePattern(v) ==
  /\ Len(v) >= 1
  /\ \A i \in 1..Len(v) :
       Ch(v, i) \in Letter \/ IsSpace(Ch(v, i)) \/ Ch(v, i) \in {"'", "-"}

NoSpaceNoAt(v, from, to) ==
  \A i \in from..to : ~IsSpace(Ch(v, i)) /\ Ch(v, i) # "@"

\* /^[^\s@]+@[^\s@]+\.[^\s@]+$/
EmailPattern(v) ==
  \E at \in 2..Len(v), dot \in 4..(Len(v) - 1) :
    /\ Ch(v, at) = "@" /\ Ch(v, dot) = "."
    /\ at + 1 < dot
    /\ NoSpaceNoAt(v, 1, at - 1)
    /\ NoSpaceNoAt(v, at + 1, dot - 1)
    /\ NoSpaceNoAt(v, dot + 1, Len(v))

PatternTest(pattern, v) ==
  IF pattern = "name" THEN NamePattern(v) ELSE EmailPattern(v)

\* the isValid of validateField
FieldValid(c, fieldName) ==
  LET value == Trim(c.value[fieldName])
      rules == validationRules[fieldName]
  IN IF rules.required /\ value = "" THEN FALSE
     ELSE IF value # "" /\ rules.minLength # 0 /\ Len(value) < rules.minLength
          THEN FALSE
     ELSE IF value # "" /\ rules.maxLength # 0 /\ Len(value) > rules.maxLength
          THEN FALSE
     ELSE IF value # "" /\ rules.pattern # "" /\ ~PatternTest(rules.pattern, value)
          THEN FALSE
     ELSE TRUE

isFormValid(c) ==
  LET nameValue == Trim(c.value.name)
      emailValue == Trim(c.value.email)
      messageValue == Trim(c.value.message)
      nameValid == /\ nameValue # ""
                   /\ Len(nameValue) >= validationRules.name.minLength
                   /\ Len(nameValue) <= validationRules.name.maxLength
                   /\ NamePattern(nameValue)
      emailValid == emailValue # "" /\ EmailPattern(emailValue)
      messageValid == /\ messageValue # ""
                      /\ Len(messageValue) >= validationRules.message.minLength
                      /\ Len(messageValue) <= validationRules.message.maxLength
  IN nameValid /\ emailValid /\ messageValid

updateSubmitButton(c) == [c EXCEPT !.disabled = ~isFormValid(c)]

updateFieldUI(c, fieldName, isValid) ==
  [c EXCEPT !.ui[fieldName] =
     IF Trim(c.value[fieldName]) # ""
     THEN IF isValid THEN "success" ELSE "error"
     ELSE IF ~isValid THEN "error" ELSE ""]

validateField(c, fieldName) ==
  updateSubmitButton(updateFieldUI(c, fieldName, FieldValid(c, fieldName)))

validateForm(c) ==
  validateField(validateField(validateField(c, "name"), "email"), "message")

setLoadingState(c, isLoading) ==
  [c EXCEPT !.disabled = isLoading,
            !.loadingClass = isLoading,
            !.btnText = IF isLoading THEN "Sending..." ELSE "Send Message"]

\* setting textContent removes what was appended to the status element
showStatus(c, message, type) ==
  [c EXCEPT !.statusText = message, !.statusType = type,
            !.retryButton = FALSE, !.fallback = FALSE,
            !.statusTimers = IF type = "success" THEN @ + 1 ELSE @]

clearStatus(c) ==
  [c EXCEPT !.statusText = "", !.statusType = "",
            !.retryButton = FALSE, !.fallback = FALSE]

NoValues == [name |-> "", email |-> "", message |-> ""]

resetForm(c) ==
  updateSubmitButton([c EXCEPT !.value = NoValues,
                               !.ui = [f \in Fields |-> ""]])

addRetryButton(c) == [c EXCEPT !.retryButton = TRUE]

addFallbackContact(c) == [c EXCEPT !.fallback = TRUE]

\* error.status is undefined for every error that reaches the handler (an
\* Error made in submitViaFormspree, the TypeError of fetch), so of the
\* comparisons with it only the branches on navigator.onLine remain
handleSubmissionError(c, message) ==
  LET stopped == setLoadingState(c, FALSE)
      errorMessage ==
        "Sorry, there was a problem sending your message. " \o
        (IF Includes(message, "EmailJS service is not available")
         THEN "The email service is temporarily unavailable."
         ELSE IF ~c.online
              THEN "Please check your internet connection and try again."
              ELSE "Please try again or contact us directly.")
      shown == showStatus(stopped, errorMessage, "error")
  IN IF ~c.online THEN addRetryButton(shown) ELSE addFallbackContact(shown)

\* submitViaFormspree up to the await of fetch
submitViaFormspree(c) ==
  [c EXCEPT !.requests = Append(@, [data |-> c.value, body |-> FALSE])]

Without1(s, i) == SubSeq(s, 1, i - 1) \o SubSeq(s, i + 1, Len(s))

\* submitViaFormspree after a response with response.ok
responseOk(c, i) ==
  resetForm(
    showStatus(setLoadingState([c EXCEPT !.requests = Without1(@, i)], FALSE),
               "Thank you for your message! We'll get back to you soon.",
               "success"))

\* fetch or submitViaFormspree throws: the catch of handleSubmit
submissionFailed(c, i, message) ==
  handleSubmissionError([c EXCEPT !.requests = Without1(@, i)], message)

handleSubmit(c) ==
  LET cleared == clearStatus(c)
      validated == validateForm(cleared)
  IN IF ~(\A f \in Fields : FieldValid(cleared, f))
     THEN showStatus(validated,
                     "Please correct the errors above before submitting.",
                     "error")
     ELSE submitViaFormspree(
            showStatus(setLoadingState(validated, TRUE),
                       "Sending your message...", "loading"))

\* the click listener of the retry button: this.submitViaEmailJS is not a
\* method of the class, the call throws a TypeError
retryClick(c) ==
  [showStatus(setLoadingState(clearStatus(c), TRUE),
              "Sending your message...", "loading")
     EXCEPT !.uncaught = TRUE]

onlineListener(c) ==
  IF Includes(c.statusText, "internet connection") THEN clearStatus(c) ELSE c

offlineListener(c) ==
  IF c.disabled /\ c.loadingClass
  THEN showStatus(setLoadingState(c, FALSE),
                  "No internet connection. Please check your connection and try again.",
                  "error")
  ELSE c

ExceptContactForm == <<build, navigation, darkMode, fontLoader, siteMap>>

Names == {"", "A", "Al", "Bo"}
Emails == {"", "a@b", "a@b.c"}
Messages == {"", "Hi", "Hello world"}
Values == [name |-> Names, email |-> Emails, message |-> Messages]

ErrorMessages == {"Failed to fetch", "EmailJS service is not available"}

Event(c, name) ==
  /\ contactForm' = [c EXCEPT !.last = name]
  /\ UNCHANGED ExceptContactForm

\* the user types into a field
InputField ==
  /\ contactForm.loaded
  /\ \E f \in Fields : \E v \in Values[f] :
       /\ v # contactForm.value[f]
       /\ Event(validateField([contactForm EXCEPT !.value[f] = v], f), "input")

\* a field loses the focus
BlurField ==
  /\ contactForm.loaded
  /\ \E f \in Fields : Event(validateField(contactForm, f), "blur")

\* the submit button is clicked
SubmitForm ==
  /\ contactForm.loaded
  /\ ~contactForm.disabled
  /\ Len(contactForm.requests) < MaxRequests
  /\ Event(handleSubmit(contactForm), "submit")

ResponseOk ==
  /\ \E i \in 1..Len(contactForm.requests) :
       /\ ~contactForm.requests[i].body
       /\ contactForm.statusTimers < MaxStatusTimers
       /\ Event(responseOk(contactForm, i), "response")

\* a response that is not ok: response.json() is awaited
ResponseNotOk ==
  /\ \E i \in 1..Len(contactForm.requests) :
       /\ ~contactForm.requests[i].body
       /\ Event([contactForm EXCEPT !.requests[i].body = TRUE], "body")

\* the body of the error response has been read, or could not be
ErrorBodyRead ==
  /\ \E i \in 1..Len(contactForm.requests), message \in ErrorMessages :
       /\ contactForm.requests[i].body
       /\ Event(submissionFailed(contactForm, i, message), "failed")

\* fetch rejects
FetchRejects ==
  /\ \E i \in 1..Len(contactForm.requests) :
       /\ ~contactForm.requests[i].body
       /\ Event(submissionFailed(contactForm, i, "Failed to fetch"), "failed")

GoOnline ==
  /\ contactForm.loaded
  /\ ~contactForm.online
  /\ Event(onlineListener([contactForm EXCEPT !.online = TRUE]), "online")

GoOffline ==
  /\ contactForm.loaded
  /\ contactForm.online
  /\ Event(offlineListener([contactForm EXCEPT !.online = FALSE]), "offline")

ClickRetry ==
  /\ contactForm.loaded
  /\ contactForm.retryButton
  /\ Event([retryClick(contactForm) EXCEPT !.retried = TRUE], "retry")

\* the 5000 ms timer of a success status
StatusTimerFires ==
  /\ contactForm.loaded
  /\ contactForm.statusTimers > 0
  /\ Event(clearStatus([contactForm EXCEPT !.statusTimers = @ - 1]), "timer")

RequestSettles ==
  \/ ResponseOk
  \/ ResponseNotOk
  \/ ErrorBodyRead
  \/ FetchRejects

NextContactForm ==
  \/ InputField
  \/ BlurField
  \/ SubmitForm
  \/ ResponseOk
  \/ ResponseNotOk
  \/ ErrorBodyRead
  \/ FetchRejects
  \/ GoOnline
  \/ GoOffline
  \/ ClickRetry
  \/ StatusTimerFires

\* new ContactForm() on DOMContentLoaded; the button is as the markup has it
InitContactForm ==
  /\ BuildIdle
  /\ navigation = NotLoaded
  /\ darkMode = NotLoaded
  /\ fontLoader = NotLoaded
  /\ siteMap = NotLoaded
  /\ \E isDisabled \in BOOLEAN, onLine \in BOOLEAN :
       contactForm = [loaded |-> TRUE, value |-> NoValues,
                      ui |-> [f \in Fields |-> ""],
                      disabled |-> isDisabled, loadingClass |-> FALSE,
                      btnText |-> "Send Message",
                      statusText |-> "", statusType |-> "",
                      retryButton |-> FALSE, fallback |-> FALSE,
                      online |-> onLine, requests |-> <<>>,
                      statusTimers |-> 0, uncaught |-> FALSE,
                      retried |-> FALSE, last |-> "none"]

SpecContactForm == InitContactForm /\ [][NextContactForm]_vars

\* every request is answered or fails in the end
FairSpecContactForm == SpecContactForm /\ WF_vars(RequestSettles)

\* C26: while a request of the contact form is in flight the submit button
\* is disabled, whatever input, blur, online and offline events come in
\* between, and no second request is in flight with it.
C26_DisabledWhileInFlight ==
  /\ contactForm.requests # <<>> => contactForm.disabled
  /\ Len(contactForm.requests) <= 1

LeftLoading ==
  /\ ~contactForm.loadingClass
  /\ contactForm.btnText = "Send Message"
  /\ contactForm.statusType \in {"success", "error"}

\* after a click on the Try Again button the form leaves the loading state
RetryLeavesLoading == (contactForm.last = "retry") ~> LeftLoading

\* C28: a click on the Try Again button sends a request carrying the current
\* values of the fields, and after such a click the form leaves the loading
\* state again: a success or error status is shown and the submit button
\* reads Send Message.
C28_RetrySubmitsAndSettles ==
  /\ [][contactForm'.last = "retry" =>
          /\ Len(contactForm'.requests) = Len(contactForm.requests) + 1
          /\ contactForm'.requests[Len(contactForm'.requests)].data
               = contactForm.value]_vars
  /\ (contactForm.last = "retry") ~> LeftLoading

=============================================================================
